---- MODULE Spec2Model ----
(***************************************************************************)
(* eas_alsadrv.c: an ALSA sequencer client that encodes incoming events    *)
(* into a MIDI byte stream (process_event), passes the bytes through a     *)
(* single-producer / single-consumer ring buffer (write_event in the       *)
(* capture thread, render_subbuffer in the main loop) and feeds them to    *)
(* the Sonivox EAS synthesizer, whose output is written to a PCM device.   *)
(*                                                                         *)
(* The two threads are interleaved at the granularity of one access to a   *)
(* volatile global (or one byte stored to event_buffer) per step, in       *)
(* program order.                                                          *)
(***************************************************************************)
EXTENDS Integers, Sequences, FiniteSets, TLC

\* Size of event_buffer (65536 in the source, where indices wrap with
\* "& 0xffff"); scaled down so that wrap-around is reached.
BufSize == 10

\* Number of events the sequencer delivers in a run of Spec.
MaxEvents == 3

\* Number of events delivered in a run of SpecRpn / SpecRun / SpecEnc /
\* SpecBend / SpecNoop / SpecLoop.
MaxRpnEvents == 3
MaxRunEvents == 4
MaxEncEvents == 2
MaxBendEvents == 2
MaxNoopEvents == 3
MaxLoopEvents == 2

\* Number of events delivered in a run of SpecStall.
MaxStallEvents == 2

\* Frames per render call (eas_config->mixBufferSize), scaled down.
samples_per_call == 2

\* snd_pcm_avail_update answers at most this many periods of free frames.
MaxAvailPeriods == 4

\* Calls of EAS_Render are counted up to this many.
MaxRenders == 2

\* The monotonic clock runs up to this many seconds.
MaxTime == 4

\* Iterations of the inner loop followed after an error of
\* snd_pcm_avail_update on a build that compares it unsigned.
MaxErrorPeriods == 1

(***************************************************************************)
(* C arithmetic                                                            *)
(***************************************************************************)

\* Conversion to uint8_t.
Byte(x) == x % 256

\* x & 0x7f and x >> 7 on int (two's complement, arithmetic shift).
And7f(x) == x % 128
Shr7(x) == x \div 128

\* a | b on non-negative operands.
RECURSIVE BitOr(_, _)
BitOr(a, b) ==
    IF a = 0 THEN b
    ELSE IF b = 0 THEN a
    ELSE (IF a % 2 = 1 \/ b % 2 = 1 THEN 1 ELSE 0) + 2 * BitOr(a \div 2, b \div 2)

(***************************************************************************)
(* Sequencer events (snd_seq_event_t), by the fields process_event reads   *)
(***************************************************************************)

NoteEvent(t, c, n, v) == [type |-> t, channel |-> c, note |-> n, velocity |-> v]
ControlEvent(t, c, p, v) == [type |-> t, channel |-> c, param |-> p, value |-> v]
SysexEvent(bytes) == [type |-> "SYSEX", len |-> Len(bytes), ptr |-> bytes]
OtherEvent(t) == [type |-> t]

VARIABLES
    event_buffer,       \* uint8_t event_buffer[65536]
    event_read_index,   \* volatile int, advanced by render_subbuffer
    event_write_index,  \* volatile int, advanced by write_event
    midi_event_written, \* volatile int, the notification flag
    midi_init_state,    \* volatile int: 0 not started, 1 running, -1 stopping
    initialized,        \* start_thread's local, set by the new thread
    midi_pc,            \* position of the capture thread (midi_thread_proc)
    running_status,     \* midi_thread_proc's local
    we_event,           \* write_event: the bytes still to copy (event, length)
    we_read_index,      \* write_event's local read_index
    we_write_index,     \* write_event's local write_index
    main_pc,            \* position of the main thread
    is_paused,          \* main_loop's local
    available_frames,   \* main_loop's local
    rs_read_index,      \* render_subbuffer's local read_index
    rs_write_index,     \* render_subbuffer's local write_index
    last_written_time,  \* main_loop's local (tv_sec), Unset until assigned
    subbuf_counter,     \* the slot of midi_buffer the next period goes to
    num,                \* argument of render_subbuffer / output_subbuffer (-1: no call)
    rs_result,          \* what render_subbuffer returned to main_loop
    os_result,          \* what output_subbuffer returned to main_loop
    prefill_i,          \* main_loop's i, the slot of the pre-fill loop
    now,                \* the monotonic clock, in seconds
    pcm_paused,         \* the output device is paused
    data_handle,        \* the synthesizer: "NULL" or "open"
    midi_pcm,           \* the output device: "NULL" or "open"
    midi_seq,           \* the sequencer port: "NULL" or "open"
    pcmstate,           \* main_loop's local: what snd_pcm_state answered ("none": not asked)
    eas_renders,        \* calls of EAS_Render so far, counted up to MaxRenders
    eas_config,         \* what EAS_Config() points to (<<>>: the scaled pool is used)
    pool,               \* start_synth: bytes_per_call and num_subbuffers as computed (<<>>: not yet)
    remaining,          \* output_subbuffer's local: frames still to write
    buf_ptr,            \* output_subbuffer's local, as a byte offset into midi_buffer
    handed,             \* byte offsets of the frames the device accepted in this call, in order
    eas_stream,         \* every byte handed to EAS_WriteMIDIStream, in order
    overflow_count,     \* number of "Event buffer overflow" lines on stderr
    log                 \* history: one record per event process_event was given

vars == <<event_buffer, event_read_index, event_write_index, midi_event_written,
          midi_init_state, initialized, midi_pc, running_status, we_event,
          we_read_index, we_write_index, main_pc, is_paused, available_frames,
          rs_read_index, rs_write_index, last_written_time, subbuf_counter,
          num, rs_result, os_result, prefill_i, now, pcm_paused, data_handle,
          midi_pcm, midi_seq, pcmstate, eas_renders, eas_config, pool,
          remaining, buf_ptr, handed,
          eas_stream, overflow_count, log>>

channel_vars == <<event_buffer, event_read_index, event_write_index, midi_event_written>>
midi_vars == <<midi_pc, running_status, we_event, we_read_index, we_write_index>>
write_vars == <<remaining, buf_ptr, handed>>
synth_vars == <<pcmstate, eas_renders, eas_config, pool, write_vars>>
tick_vars == <<last_written_time, subbuf_counter, num, rs_result, os_result, prefill_i,
               synth_vars>>
device_vars == <<now, pcm_paused, data_handle, midi_pcm, midi_seq>>
main_vars == <<main_pc, is_paused, available_frames, rs_read_index, rs_write_index,
               tick_vars, device_vars>>

Indices == 0 .. (BufSize - 1)

(***************************************************************************)
(* process_event: the encoder                                              *)
(***************************************************************************)

\* A faulty tail: the status byte sent is not remembered.
RunningStatus_forgets(data, status) ==
    IF data[1] # status
    THEN [call |-> TRUE, data |-> data, running_status |-> status]
    ELSE [call |-> TRUE, data |-> Tail(data), running_status |-> status]

\* The tail shared by every channel message: the status byte data[0] is sent,
\* and remembered, only when it differs from *running_status.
\* Result: was write_event called, with which bytes, and the new running status.
RunningStatus(data, status) ==
    IF data[1] # status
    THEN [call |-> TRUE, data |-> data, running_status |-> data[1]]
    ELSE [call |-> TRUE, data |-> Tail(data), running_status |-> status]

NoBytes(status) == [call |-> FALSE, data |-> <<>>, running_status |-> status]

\* data[] as each case of the switch fills it.
note_on_data(event) ==
    <<Byte(BitOr(144, event.channel)), Byte(event.note), Byte(event.velocity)>>

\* A faulty note-off: sent as a MIDI note-off (0x80) with its release velocity.
note_off_data_0x80(event) ==
    <<Byte(BitOr(128, event.channel)), Byte(event.note), Byte(event.velocity)>>

note_off_data(event) ==
    <<Byte(BitOr(144, event.channel)), Byte(event.note), 0>>

controller_data(event) ==
    <<Byte(BitOr(176, event.channel)), Byte(event.param), Byte(event.value)>>

pgmchange_data(event) ==
    <<Byte(BitOr(192, event.channel)), Byte(event.value)>>

chanpress_data(event) ==
    <<Byte(BitOr(208, event.channel)), Byte(event.value)>>

\* A faulty pitch bend: the two data bytes in the wrong order.
pitchbend_data_swapped(event) ==
    <<Byte(BitOr(224, event.channel)),
      Byte(And7f(Shr7(event.value + 8192))),
      Byte(And7f(event.value + 8192))>>

pitchbend_data(event) ==
    <<Byte(BitOr(224, event.channel)),
      Byte(And7f(event.value + 8192)),
      Byte(And7f(Shr7(event.value + 8192)))>>

\* A faulty range check: controller 32 accepted.
control14_valid_upto32(event) == event.param >= 0 /\ event.param <= 32

control14_valid(event) == event.param >= 0 /\ event.param < 32

control14_data(event) ==
    <<Byte(BitOr(176, event.channel)),
      Byte(event.param),
      Byte(And7f(Shr7(event.value))),
      Byte(event.param + 32),
      Byte(And7f(event.value))>>

\* A faulty burst: the non-registered parameter controllers (0x63, 0x62).
regparam_data_nrpn(event) ==
    <<Byte(BitOr(176, event.channel)),
      99,
      Byte(And7f(Shr7(event.param))),
      98,
      Byte(And7f(event.param)),
      6,
      Byte(And7f(Shr7(event.value))),
      38,
      Byte(And7f(event.value))>>

regparam_data(event) ==
    <<Byte(BitOr(176, event.channel)),
      101,
      Byte(And7f(Shr7(event.param))),
      100,
      Byte(And7f(event.param)),
      6,
      Byte(And7f(Shr7(event.value))),
      38,
      Byte(And7f(event.value))>>

\* A faulty system-exclusive case: the running status is kept.
sysex_message_keeps_status(event, status) ==
    [call |-> TRUE, data |-> SubSeq(event.ptr, 1, event.len), running_status |-> status]

\* *running_status = 0; write_event(event->data.ext.ptr, length);
sysex_message(event, status) ==
    [call |-> TRUE, data |-> SubSeq(event.ptr, 1, event.len), running_status |-> 0]

\* The cases of the switch whose encoding is compiled out (#if 0): they
\* break without touching data, *running_status or write_event.
NotUsed ==
    {"KEYPRESS", "NONREGPARAM", "QFRAME", "SONGPOS", "SONGSEL", "TUNE_REQUEST",
     "CLOCK", "TICK", "START", "CONTINUE", "STOP", "SENSING", "RESET"}

\* The cases that only call subscription_event, which prints the client's name.
Subscription == {"PORT_SUBSCRIBED", "PORT_UNSUBSCRIBED"}

\* A faulty switch: the key-pressure encoding (0xA0) is compiled in.
process_event_keypress(event, status) ==
    CASE event.type = "NOTEON" -> RunningStatus(note_on_data(event), status)
      [] event.type = "NOTEOFF" -> RunningStatus(note_off_data(event), status)
      [] event.type = "KEYPRESS" ->
            RunningStatus(<<Byte(BitOr(160, event.channel)), Byte(event.note),
                            Byte(event.velocity)>>, status)
      [] event.type = "CONTROLLER" -> RunningStatus(controller_data(event), status)
      [] event.type = "PGMCHANGE" -> RunningStatus(pgmchange_data(event), status)
      [] event.type = "CHANPRESS" -> RunningStatus(chanpress_data(event), status)
      [] event.type = "PITCHBEND" -> RunningStatus(pitchbend_data(event), status)
      [] event.type = "CONTROL14" ->
            IF control14_valid(event)
            THEN RunningStatus(control14_data(event), status)
            ELSE NoBytes(status)
      [] event.type = "REGPARAM" -> RunningStatus(regparam_data(event), status)
      [] event.type = "SYSEX" -> sysex_message(event, status)
      [] OTHER -> NoBytes(status)

process_event(event, status) ==
    CASE event.type = "NOTEON" -> RunningStatus(note_on_data(event), status)
      [] event.type = "NOTEOFF" -> RunningStatus(note_off_data(event), status)
      [] event.type = "CONTROLLER" -> RunningStatus(controller_data(event), status)
      [] event.type = "PGMCHANGE" -> RunningStatus(pgmchange_data(event), status)
      [] event.type = "CHANPRESS" -> RunningStatus(chanpress_data(event), status)
      [] event.type = "PITCHBEND" -> RunningStatus(pitchbend_data(event), status)
      [] event.type = "CONTROL14" ->
            IF control14_valid(event)
            THEN RunningStatus(control14_data(event), status)
            ELSE NoBytes(status)
      [] event.type = "REGPARAM" -> RunningStatus(regparam_data(event), status)
      [] event.type = "SYSEX" -> sysex_message(event, status)
      [] event.type \in NotUsed -> NoBytes(status)
      [] event.type \in Subscription -> NoBytes(status)
      [] OTHER -> NoBytes(status)

(***************************************************************************)
(* write_event: the producer side of the ring buffer                       *)
(***************************************************************************)

\* A faulty free_space: no slot kept free, so a full buffer looks empty.
free_space_no_spare_slot(read_index, write_index) ==
    IF write_index >= read_index
    THEN BufSize - (write_index - read_index)
    ELSE read_index - write_index

\* free_space as write_event computes it from its two local copies.
free_space(read_index, write_index) ==
    IF write_index >= read_index
    THEN (BufSize - 1) - (write_index - read_index)
    ELSE (read_index - write_index) - 1

\* The result recorded in the last record of log.
SetResult(r) == [log EXCEPT ![Len(log)].result = r]

\* read_index = event_read_index;
write_event_read ==
    /\ midi_pc = "we_read"
    /\ we_read_index' = event_read_index
    /\ midi_pc' = "we_check"
    /\ UNCHANGED <<channel_vars, midi_init_state, initialized, running_status,
                   we_event, we_write_index, main_vars, eas_stream,
                   overflow_count, log>>

\* A faulty check: on overflow the part of the event that fits is written.
write_event_check_partial ==
    /\ midi_pc = "we_check"
    /\ we_write_index' = event_write_index
    /\ IF Len(we_event) > free_space(we_read_index, event_write_index)
       THEN /\ overflow_count' = overflow_count + 1
            /\ we_event' = SubSeq(we_event, 1, free_space(we_read_index, event_write_index))
            /\ log' = [log EXCEPT ![Len(log)].data = we_event']
            /\ midi_pc' = "we_copy"
       ELSE /\ midi_pc' = "we_copy"
            /\ UNCHANGED <<overflow_count, log, we_event>>
    /\ UNCHANGED <<channel_vars, midi_init_state, initialized, running_status,
                   we_read_index, main_vars, eas_stream>>

\* A faulty check: on overflow the oldest bytes are discarded to make room.
write_event_check_evict ==
    /\ midi_pc = "we_check"
    /\ we_write_index' = event_write_index
    /\ IF Len(we_event) > free_space(we_read_index, event_write_index)
       THEN /\ event_read_index' = event_write_index
            /\ overflow_count' = overflow_count + 1
       ELSE UNCHANGED <<event_read_index, overflow_count>>
    /\ midi_pc' = "we_copy"
    /\ UNCHANGED <<event_buffer, event_write_index, midi_event_written,
                   midi_init_state, initialized, running_status, we_event,
                   we_read_index, main_vars, eas_stream, log>>

\* write_index = event_write_index; free_space; if (length > free_space) return;
write_event_check ==
    /\ midi_pc = "we_check"
    /\ we_write_index' = event_write_index
    /\ IF Len(we_event) > free_space(we_read_index, event_write_index)
       THEN /\ overflow_count' = overflow_count + 1
            /\ log' = SetResult("dropped")
            /\ we_event' = <<>>
            /\ midi_pc' = "loop"
       ELSE /\ midi_pc' = "we_copy"
            /\ UNCHANGED <<overflow_count, log, we_event>>
    /\ UNCHANGED <<channel_vars, midi_init_state, initialized, running_status,
                   we_read_index, main_vars, eas_stream>>

\* One round of: event_buffer[write_index] = *event; write_index = (write_index + 1) & 0xffff;
write_event_copy ==
    /\ midi_pc = "we_copy"
    /\ IF we_event # <<>>
       THEN /\ event_buffer' = [event_buffer EXCEPT ![we_write_index] = Head(we_event)]
            /\ we_write_index' = (we_write_index + 1) % BufSize
            /\ we_event' = Tail(we_event)
            /\ UNCHANGED midi_pc
       ELSE /\ midi_pc' = "we_publish"
            /\ UNCHANGED <<event_buffer, we_write_index, we_event>>
    /\ UNCHANGED <<event_read_index, event_write_index, midi_event_written,
                   midi_init_state, initialized, running_status, we_read_index,
                   main_vars, eas_stream, overflow_count, log>>

\* event_write_index = write_index;
write_event_publish ==
    /\ midi_pc = "we_publish"
    /\ event_write_index' = we_write_index
    /\ log' = SetResult("written")
    /\ midi_pc' = "we_notify"
    /\ UNCHANGED <<event_buffer, event_read_index, midi_event_written,
                   midi_init_state, initialized, running_status, we_event,
                   we_read_index, we_write_index, main_vars, eas_stream,
                   overflow_count>>

\* midi_event_written = 1;
write_event_notify ==
    /\ midi_pc = "we_notify"
    /\ midi_event_written' = 1
    /\ midi_pc' = "loop"
    /\ UNCHANGED <<event_buffer, event_read_index, event_write_index,
                   midi_init_state, initialized, running_status, we_event,
                   we_read_index, we_write_index, main_vars, eas_stream,
                   overflow_count, log>>

write_event ==
    \/ write_event_read
    \/ write_event_check
    \/ write_event_copy
    \/ write_event_publish
    \/ write_event_notify

(***************************************************************************)
(* midi_thread_proc: the capture thread                                    *)
(***************************************************************************)

\* *(int *)arg = 1;
midi_thread_proc_init ==
    /\ midi_pc = "init"
    /\ initialized' = 1
    /\ midi_pc' = "wait"
    /\ UNCHANGED <<channel_vars, midi_init_state, running_status, we_event,
                   we_read_index, we_write_index, main_vars, eas_stream,
                   overflow_count, log>>

\* A faulty wait: it returns without looking at midi_init_state.
wait_for_midi_initialization_returns ==
    /\ midi_pc = "wait"
    /\ running_status' = 0
    /\ midi_pc' = "loop"
    /\ UNCHANGED <<channel_vars, midi_init_state, initialized, we_event,
                   we_read_index, we_write_index, main_vars, eas_stream,
                   overflow_count, log>>

\* Leaves the polling loop once midi_init_state != 0; then running_status = 0.
wait_for_midi_initialization ==
    /\ midi_pc = "wait"
    /\ midi_init_state # 0
    /\ running_status' = 0
    /\ midi_pc' = "loop"
    /\ UNCHANGED <<channel_vars, midi_init_state, initialized, we_event,
                   we_read_index, we_write_index, main_vars, eas_stream,
                   overflow_count, log>>

\* while (midi_init_state > 0)
midi_thread_proc_loop ==
    /\ midi_pc = "loop"
    /\ midi_pc' = IF midi_init_state > 0 THEN "input" ELSE "exit"
    /\ UNCHANGED <<channel_vars, midi_init_state, initialized, running_status,
                   we_event, we_read_index, we_write_index, main_vars,
                   eas_stream, overflow_count, log>>

\* snd_seq_event_input failed: continue.
snd_seq_event_input_error ==
    /\ midi_pc = "input"
    /\ midi_pc' = "loop"
    /\ UNCHANGED <<channel_vars, midi_init_state, initialized, running_status,
                   we_event, we_read_index, we_write_index, main_vars,
                   eas_stream, overflow_count, log>>

\* snd_seq_event_input delivered an event: process_event(event, &running_status),
\* up to its call of write_event. Events[k] is what the sequencer may deliver
\* as its k-th event, Max how many events it delivers.
snd_seq_event_input(Events, Max) ==
    /\ midi_pc = "input"
    /\ Len(log) < Max
    /\ \E event \in Events[Len(log) + 1] :
          LET enc == process_event(event, running_status) IN
          /\ running_status' = enc.running_status
          /\ log' = Append(log, [event |-> event,
                                 status |-> running_status,
                                 data |-> enc.data,
                                 result |-> IF enc.call THEN "pending" ELSE "none"])
          /\ IF enc.call
             THEN /\ we_event' = enc.data
                  /\ midi_pc' = "we_read"
             ELSE /\ we_event' = <<>>
                  /\ midi_pc' = "loop"
    /\ UNCHANGED <<channel_vars, midi_init_state, initialized, we_read_index,
                   we_write_index, main_vars, eas_stream, overflow_count>>

\* The body of while (midi_init_state > 0).
capture_loop(Events, Max) ==
    \/ midi_thread_proc_loop
    \/ snd_seq_event_input_error
    \/ snd_seq_event_input(Events, Max)
    \/ write_event

midi_thread_proc(Events, Max) ==
    \/ midi_thread_proc_init
    \/ wait_for_midi_initialization
    \/ capture_loop(Events, Max)

(***************************************************************************)
(* render_subbuffer: the consumer side of the ring buffer                  *)
(***************************************************************************)

\* The bytes event_buffer[from .. to-1], as one EAS_WriteMIDIStream call reads them.
Span(from, to) == [i \in 1 .. (to - from) |-> event_buffer[from + i - 1]]

\* read_index = event_read_index;
render_subbuffer_read ==
    /\ main_pc = "rs_read"
    /\ rs_read_index' = event_read_index
    /\ main_pc' = "rs_write"
    /\ UNCHANGED <<channel_vars, midi_init_state, initialized, midi_vars, tick_vars,
                   device_vars,
                   is_paused, available_frames, rs_write_index, eas_stream,
                   overflow_count, log>>

\* write_index = event_write_index; if (read_index != write_index)
render_subbuffer_write ==
    /\ main_pc = "rs_write"
    /\ rs_write_index' = event_write_index
    /\ main_pc' = IF rs_read_index # event_write_index THEN "rs_span1" ELSE "rs_render"
    /\ UNCHANGED <<channel_vars, midi_init_state, initialized, midi_vars, tick_vars,
                   device_vars,
                   is_paused, available_frames, rs_read_index, eas_stream,
                   overflow_count, log>>

\* The first EAS_WriteMIDIStream call: the whole region, or its part before the wrap.
render_subbuffer_span1 ==
    /\ main_pc = "rs_span1"
    /\ IF rs_read_index < rs_write_index
       THEN /\ eas_stream' = eas_stream \o Span(rs_read_index, rs_write_index)
            /\ main_pc' = "rs_update"
       ELSE /\ eas_stream' = eas_stream \o Span(rs_read_index, BufSize)
            /\ main_pc' = "rs_span2"
    /\ UNCHANGED <<channel_vars, midi_init_state, initialized, midi_vars, tick_vars,
                   device_vars,
                   is_paused, available_frames, rs_read_index, rs_write_index,
                   overflow_count, log>>

\* The second EAS_WriteMIDIStream call: the part after the wrap.
render_subbuffer_span2 ==
    /\ main_pc = "rs_span2"
    /\ eas_stream' = eas_stream \o Span(0, rs_write_index)
    /\ main_pc' = "rs_update"
    /\ UNCHANGED <<channel_vars, midi_init_state, initialized, midi_vars, tick_vars,
                   device_vars,
                   is_paused, available_frames, rs_read_index, rs_write_index,
                   overflow_count, log>>

\* A faulty update: event_write_index is read again instead of the snapshot.
render_subbuffer_update_reread ==
    /\ main_pc = "rs_update"
    /\ event_read_index' = event_write_index
    /\ main_pc' = "rs_render"
    /\ UNCHANGED <<event_buffer, event_write_index, midi_event_written,
                   midi_init_state, initialized, midi_vars, tick_vars,
                   device_vars, is_paused,
                   available_frames, rs_read_index, rs_write_index, eas_stream,
                   overflow_count, log>>

\* event_read_index = write_index;
render_subbuffer_update ==
    /\ main_pc = "rs_update"
    /\ event_read_index' = rs_write_index
    /\ main_pc' = "rs_render"
    /\ UNCHANGED <<event_buffer, event_write_index, midi_event_written,
                   midi_init_state, initialized, midi_vars, tick_vars,
                   device_vars, is_paused,
                   available_frames, rs_read_index, rs_write_index, eas_stream,
                   overflow_count, log>>

\* What EAS_Render may answer.
EAS_Results == {"EAS_SUCCESS", "EAS_FAILURE"}

\* What EAS_Render may store in num_generated: the period, or one frame less.
Generated == {samples_per_call, samples_per_call - 1}

\* A faulty result: the number of frames is not looked at.
render_result_any_count(res, num_generated) ==
    IF res # "EAS_SUCCESS" THEN -1
    ELSE 0

\* if (res != EAS_SUCCESS) return -1; if (num_generated != samples_per_call) return -2; return 0;
render_result(res, num_generated) ==
    IF res # "EAS_SUCCESS" THEN -1
    ELSE IF num_generated # samples_per_call THEN -2
    ELSE 0

\* render_subbuffer: EAS_Render into slot num, and the value returned; the
\* call is counted.
EAS_Render(pcm) ==
    /\ main_pc = "rs_render"
    /\ \E answer \in pcm.render : rs_result' = render_result(answer[1], answer[2])
    /\ eas_renders' = IF eas_renders < MaxRenders THEN eas_renders + 1 ELSE eas_renders
    /\ main_pc' = "output"
    /\ UNCHANGED <<channel_vars, midi_init_state, initialized, midi_vars,
                   is_paused, available_frames, rs_read_index, rs_write_index,
                   last_written_time, subbuf_counter, num, os_result, prefill_i,
                   pcmstate, eas_config, write_vars, pool, device_vars, eas_stream,
                   overflow_count, log>>

render_subbuffer(pcm) ==
    \/ render_subbuffer_read
    \/ render_subbuffer_write
    \/ render_subbuffer_span1
    \/ render_subbuffer_span2
    \/ render_subbuffer_update
    \/ EAS_Render(pcm)

(***************************************************************************)
(* main and main_loop: the main thread                                     *)
(***************************************************************************)

\* The staging pool: num_subbuffers slots of midi_buffer (at least 4, or
\* start_synth fails).
num_subbuffers == 4

\* last_written_time before its first assignment (declared without a value).
Unset == -1

\* The idle threshold in seconds (60 in the source), scaled down.
IdleThreshold == 1

\* start_synth: the parameters are unsupported or the stream cannot be opened
\* (main returns 2), or the synthesizer is started and the indices are zeroed.
start_synth ==
    /\ main_pc = "start_synth"
    /\ \/ /\ main_pc' = "exit"
          /\ UNCHANGED <<event_read_index, event_write_index, subbuf_counter, data_handle>>
       \/ /\ data_handle' = "open"
          /\ event_read_index' = 0
          /\ event_write_index' = 0
          /\ subbuf_counter' = 0
          /\ main_pc' = "start_thread"
    /\ UNCHANGED <<event_buffer, midi_event_written, midi_init_state,
                   initialized, midi_vars, is_paused, available_frames,
                   rs_read_index, rs_write_index, last_written_time, num,
                   rs_result, os_result, prefill_i, synth_vars, now, pcm_paused, midi_pcm,
                   midi_seq, eas_stream, overflow_count, log>>

\* start_thread up to pthread_create: the thread is created, or main stops
\* the synthesizer and returns 4.
start_thread ==
    /\ main_pc = "start_thread"
    /\ midi_init_state' = 0
    /\ initialized' = 0
    /\ \/ /\ midi_pc' = "init"
          /\ main_pc' = "wait_thread"
          /\ UNCHANGED data_handle
       \/ /\ main_pc' = "exit"
          /\ data_handle' = "NULL"
          /\ UNCHANGED midi_pc
    /\ UNCHANGED <<channel_vars, running_status, we_event, we_read_index,
                   we_write_index, is_paused, available_frames, rs_read_index,
                   rs_write_index, tick_vars, now, pcm_paused, midi_pcm,
                   midi_seq, eas_stream, overflow_count, log>>

\* start_thread: while (initialized == 0) nanosleep; then return 0.
start_thread_wait ==
    /\ main_pc = "wait_thread"
    /\ initialized # 0
    /\ main_pc' = "open_pcm_output"
    /\ UNCHANGED <<channel_vars, midi_init_state, initialized, midi_vars,
                   is_paused, available_frames, rs_read_index, rs_write_index,
                   tick_vars, device_vars, eas_stream, overflow_count, log>>

\* open_pcm_output: on failure midi_init_state = -1, stop_synth, return 5.
open_pcm_output ==
    /\ main_pc = "open_pcm_output"
    /\ \/ /\ midi_init_state' = -1
          /\ data_handle' = "NULL"
          /\ main_pc' = "exit"
          /\ UNCHANGED midi_pcm
       \/ /\ midi_pcm' = "open"
          /\ main_pc' = "open_midi_port"
          /\ UNCHANGED <<midi_init_state, data_handle>>
    /\ UNCHANGED <<channel_vars, initialized, midi_vars, is_paused,
                   available_frames, rs_read_index, rs_write_index, tick_vars,
                   now, pcm_paused, midi_seq, eas_stream, overflow_count, log>>

\* open_midi_port: on failure midi_init_state = -1, close_pcm_output,
\* stop_synth, return 6.
open_midi_port ==
    /\ main_pc = "open_midi_port"
    /\ \/ /\ midi_init_state' = -1
          /\ midi_pcm' = "NULL"
          /\ data_handle' = "NULL"
          /\ main_pc' = "exit"
          /\ UNCHANGED midi_seq
       \/ /\ midi_seq' = "open"
          /\ main_pc' = "main_loop"
          /\ UNCHANGED <<midi_init_state, data_handle, midi_pcm>>
    /\ UNCHANGED <<channel_vars, initialized, midi_vars, is_paused,
                   available_frames, rs_read_index, rs_write_index, tick_vars,
                   now, pcm_paused, eas_stream, overflow_count, log>>

\* A faulty pre-fill: every slot of the pool is written.
main_loop_prefill_all ==
    /\ main_pc \in {"main_loop", "prefill"}
    /\ IF main_pc = "main_loop"
       THEN /\ prefill_i' = 0
            /\ main_pc' = "prefill"
       ELSE IF prefill_i < num_subbuffers
       THEN /\ prefill_i' = prefill_i + 1
            /\ UNCHANGED main_pc
       ELSE /\ main_pc' = "first_pause"
            /\ UNCHANGED prefill_i
    /\ UNCHANGED <<channel_vars, midi_init_state, initialized, midi_vars,
                   is_paused, available_frames, rs_read_index, rs_write_index,
                   last_written_time, subbuf_counter, num, rs_result, os_result,
                   synth_vars, device_vars, eas_stream, overflow_count, log>>

\* main_loop: for (int i = 2; i < num_subbuffers; i++) output_subbuffer(i);
\* one round per step, the result of output_subbuffer not looked at.
main_loop_prefill ==
    /\ main_pc \in {"main_loop", "prefill"}
    /\ IF main_pc = "main_loop"
       THEN /\ prefill_i' = 2
            /\ main_pc' = "prefill"
       ELSE IF prefill_i < num_subbuffers
       THEN /\ prefill_i' = prefill_i + 1
            /\ UNCHANGED main_pc
       ELSE /\ main_pc' = "first_pause"
            /\ UNCHANGED prefill_i
    /\ UNCHANGED <<channel_vars, midi_init_state, initialized, midi_vars,
                   is_paused, available_frames, rs_read_index, rs_write_index,
                   last_written_time, subbuf_counter, num, rs_result, os_result,
                   synth_vars, device_vars, eas_stream, overflow_count, log>>

\* is_paused = 0; the first snd_pcm_pause(midi_pcm, 1): accepted, or
\* last_written_time = now.
\* A faulty start: a refused pause does not note the time.
main_loop_first_pause_no_time ==
    /\ main_pc = "first_pause"
    /\ \E pause_ok \in BOOLEAN :
          IF pause_ok
          THEN /\ is_paused' = TRUE
               /\ pcm_paused' = TRUE
               /\ UNCHANGED last_written_time
          ELSE /\ is_paused' = FALSE
               /\ UNCHANGED <<last_written_time, pcm_paused>>
    /\ main_pc' = "clear_flag"
    /\ UNCHANGED <<channel_vars, midi_init_state, initialized, midi_vars,
                   available_frames, rs_read_index, rs_write_index,
                   subbuf_counter, num, rs_result, os_result, prefill_i, synth_vars, now,
                   data_handle, midi_pcm, midi_seq, eas_stream, overflow_count,
                   log>>

main_loop_first_pause ==
    /\ main_pc = "first_pause"
    /\ \E pause_ok \in BOOLEAN :
          IF pause_ok
          THEN /\ is_paused' = TRUE
               /\ pcm_paused' = TRUE
               /\ UNCHANGED last_written_time
          ELSE /\ is_paused' = FALSE
               /\ last_written_time' = now
               /\ UNCHANGED pcm_paused
    /\ main_pc' = "clear_flag"
    /\ UNCHANGED <<channel_vars, midi_init_state, initialized, midi_vars,
                   available_frames, rs_read_index, rs_write_index,
                   subbuf_counter, num, rs_result, os_result, prefill_i, synth_vars, now,
                   data_handle, midi_pcm, midi_seq, eas_stream, overflow_count,
                   log>>

\* midi_event_written = 0;
main_loop_clear_flag ==
    /\ main_pc = "clear_flag"
    /\ midi_event_written' = 0
    /\ main_pc' = "set_running"
    /\ UNCHANGED <<event_buffer, event_read_index, event_write_index,
                   midi_init_state, initialized, midi_vars, is_paused,
                   available_frames, rs_read_index, rs_write_index, tick_vars,
                   device_vars, eas_stream, overflow_count, log>>

\* midi_init_state = 1;
main_loop_set_running ==
    /\ main_pc = "set_running"
    /\ midi_init_state' = 1
    /\ main_pc' = "tick"
    /\ UNCHANGED <<channel_vars, initialized, midi_vars, is_paused,
                   available_frames, rs_read_index, rs_write_index, tick_vars,
                   device_vars, eas_stream, overflow_count, log>>

\* current_time.tv_sec - last_written_time.tv_sec, current_time just read
\* from the clock; any outcome of the comparison when last_written_time was
\* never assigned.
Elapsed ==
    IF last_written_time = Unset
    THEN {0, IdleThreshold + 1}
    ELSE {now - last_written_time}

\* A faulty round: a refused pause leaves last_written_time as it was.
main_loop_tick_no_reset ==
    /\ main_pc = "tick"
    /\ IF midi_event_written # 0
       THEN /\ main_pc' = "activity"
            /\ UNCHANGED <<is_paused, pcm_paused, last_written_time>>
       ELSE IF is_paused
       THEN UNCHANGED <<main_pc, is_paused, pcm_paused, last_written_time>>
       ELSE \E elapsed \in Elapsed, pause_ok \in BOOLEAN :
               IF elapsed > IdleThreshold
               THEN IF pause_ok
                    THEN /\ is_paused' = TRUE
                         /\ pcm_paused' = TRUE
                         /\ UNCHANGED <<main_pc, last_written_time>>
                    ELSE /\ main_pc' = "refused"
                         /\ UNCHANGED <<is_paused, pcm_paused, last_written_time>>
               ELSE /\ main_pc' = "state"
                    /\ UNCHANGED <<is_paused, pcm_paused, last_written_time>>
    /\ UNCHANGED <<channel_vars, midi_init_state, initialized, midi_vars,
                   available_frames, rs_read_index, rs_write_index,
                   subbuf_counter, num, rs_result, os_result, prefill_i, synth_vars, now,
                   data_handle, midi_pcm, midi_seq, eas_stream, overflow_count,
                   log>>

\* A faulty round: a paused loop goes on to the device.
main_loop_tick_paused_renders ==
    /\ main_pc = "tick"
    /\ IF midi_event_written # 0
       THEN /\ main_pc' = "activity"
            /\ UNCHANGED <<is_paused, pcm_paused, last_written_time>>
       ELSE IF is_paused
       THEN /\ main_pc' = "state"
            /\ UNCHANGED <<is_paused, pcm_paused, last_written_time>>
       ELSE \E elapsed \in Elapsed, pause_ok \in BOOLEAN :
               IF elapsed > IdleThreshold
               THEN IF pause_ok
                    THEN /\ is_paused' = TRUE
                         /\ pcm_paused' = TRUE
                         /\ UNCHANGED <<main_pc, last_written_time>>
                    ELSE /\ last_written_time' = now
                         /\ main_pc' = "refused"
                         /\ UNCHANGED <<is_paused, pcm_paused>>
               ELSE /\ main_pc' = "state"
                    /\ UNCHANGED <<is_paused, pcm_paused, last_written_time>>
    /\ UNCHANGED <<channel_vars, midi_init_state, initialized, midi_vars,
                   available_frames, rs_read_index, rs_write_index,
                   subbuf_counter, num, rs_result, os_result, prefill_i, synth_vars, now,
                   data_handle, midi_pcm, midi_seq, eas_stream, overflow_count,
                   log>>

\* A faulty round: the idle time is looked at when paused too.
main_loop_tick_no_continue ==
    /\ main_pc = "tick"
    /\ IF midi_event_written # 0
       THEN /\ main_pc' = "activity"
            /\ UNCHANGED <<is_paused, pcm_paused, last_written_time>>
       ELSE \E elapsed \in Elapsed, pause_ok \in BOOLEAN :
               IF elapsed > IdleThreshold
               THEN IF pause_ok
                    THEN /\ is_paused' = TRUE
                         /\ pcm_paused' = TRUE
                         /\ UNCHANGED <<main_pc, last_written_time>>
                    ELSE /\ last_written_time' = now
                         /\ main_pc' = "refused"
                         /\ UNCHANGED <<is_paused, pcm_paused>>
               ELSE /\ main_pc' = "state"
                    /\ UNCHANGED <<is_paused, pcm_paused, last_written_time>>
    /\ UNCHANGED <<channel_vars, midi_init_state, initialized, midi_vars,
                   available_frames, rs_read_index, rs_write_index,
                   subbuf_counter, num, rs_result, os_result, prefill_i, synth_vars, now,
                   data_handle, midi_pcm, midi_seq, eas_stream, overflow_count,
                   log>>

\* One round of while (1) up to the test of midi_event_written, and its else
\* branch: continue when paused; when more than the idle threshold has
\* elapsed try snd_pcm_pause(midi_pcm, 1): continue when the device accepts
\* it, last_written_time = current_time when it does not (position
\* "refused": the end of that else block).
main_loop_tick ==
    /\ main_pc = "tick"
    /\ IF midi_event_written # 0
       THEN /\ main_pc' = "activity"
            /\ UNCHANGED <<is_paused, pcm_paused, last_written_time>>
       ELSE IF is_paused
       THEN UNCHANGED <<main_pc, is_paused, pcm_paused, last_written_time>>
       ELSE \E elapsed \in Elapsed, pause_ok \in BOOLEAN :
               IF elapsed > IdleThreshold
               THEN IF pause_ok
                    THEN /\ is_paused' = TRUE
                         /\ pcm_paused' = TRUE
                         /\ UNCHANGED <<main_pc, last_written_time>>
                    ELSE /\ last_written_time' = now
                         /\ main_pc' = "refused"
                         /\ UNCHANGED <<is_paused, pcm_paused>>
               ELSE /\ main_pc' = "state"
                    /\ UNCHANGED <<is_paused, pcm_paused, last_written_time>>
    /\ UNCHANGED <<channel_vars, midi_init_state, initialized, midi_vars,
                   available_frames, rs_read_index, rs_write_index,
                   subbuf_counter, num, rs_result, os_result, prefill_i, synth_vars, now,
                   data_handle, midi_pcm, midi_seq, eas_stream, overflow_count,
                   log>>

\* A faulty activity branch: after an event the round ends, as it does
\* after a pause.
main_loop_activity_continue ==
    /\ main_pc = "activity"
    /\ midi_event_written' = 0
    /\ last_written_time' = now
    /\ main_pc' = IF is_paused THEN "unpause" ELSE "tick"
    /\ UNCHANGED <<event_buffer, event_read_index, event_write_index,
                   midi_init_state, initialized, midi_vars, is_paused,
                   available_frames, rs_read_index, rs_write_index,
                   subbuf_counter, num, rs_result, os_result, prefill_i, synth_vars,
                   device_vars, eas_stream, overflow_count, log>>

\* A faulty activity branch: the flag is cleared and the time noted, but a
\* paused device is left paused.
main_loop_activity_no_unpause ==
    /\ main_pc = "activity"
    /\ midi_event_written' = 0
    /\ last_written_time' = now
    /\ main_pc' = "tick"
    /\ UNCHANGED <<event_buffer, event_read_index, event_write_index,
                   midi_init_state, initialized, midi_vars, is_paused,
                   available_frames, rs_read_index, rs_write_index,
                   subbuf_counter, num, rs_result, os_result, prefill_i, synth_vars,
                   device_vars, eas_stream, overflow_count, log>>

\* midi_event_written = 0; last_written_time = now; if (is_paused)
main_loop_activity ==
    /\ main_pc = "activity"
    /\ midi_event_written' = 0
    /\ last_written_time' = now
    /\ main_pc' = IF is_paused THEN "unpause" ELSE "state"
    /\ UNCHANGED <<event_buffer, event_read_index, event_write_index,
                   midi_init_state, initialized, midi_vars, is_paused,
                   available_frames, rs_read_index, rs_write_index,
                   subbuf_counter, num, rs_result, os_result, prefill_i, synth_vars,
                   device_vars, eas_stream, overflow_count, log>>

\* is_paused = 0; snd_pcm_pause(midi_pcm, 0); then on to the state of the device.
main_loop_unpause ==
    /\ main_pc = "unpause"
    /\ is_paused' = FALSE
    /\ pcm_paused' = FALSE
    /\ main_pc' = "state"
    /\ UNCHANGED <<channel_vars, midi_init_state, initialized, midi_vars,
                   available_frames, rs_read_index, rs_write_index, tick_vars,
                   now, data_handle, midi_pcm, midi_seq, eas_stream,
                   overflow_count, log>>

\* What snd_pcm_avail_update may answer: an error, or a number of free frames.
AvailValues == (-1) .. (MaxAvailPeriods * samples_per_call)

\* What snd_pcm_state may answer: an underrun, or any other state.
PcmStates == {"SND_PCM_STATE_RUNNING", "SND_PCM_STATE_XRUN"}

\* The synthesizer and the output device by their answers: state what
\* snd_pcm_state answers, avail what snd_pcm_avail_update answers, render
\* what EAS_Render answers and stores in num_generated, written whether
\* output_subbuffer gets the period written.
\* Any answer at any time:
AnyAnswer ==
    [state |-> PcmStates,
     avail |-> AvailValues,
     render |-> EAS_Results \X Generated,
     written |-> BOOLEAN]

\* A device with room for one period at each tick; it may have underrun,
\* and rendering and writing may fail.
FewAnswers ==
    [state |-> PcmStates,
     avail |-> {3 * samples_per_call},
     render |-> EAS_Results \X Generated,
     written |-> BOOLEAN]

\* while (available_frames >= (3 * samples_per_call)) with the operands
\* compared as signed numbers (long wider than unsigned int): the loop body,
\* or the next tick.
WhileTarget(frames) == IF frames >= 3 * samples_per_call THEN "rs_read" ELSE "tick"

\* The same test as the builds decide it. available_frames is a long
\* (snd_pcm_sframes_t) and samples_per_call an unsigned int: where long is no
\* wider than unsigned int both sides are converted to unsigned long, and a
\* negative available_frames (an error of snd_pcm_avail_update) counts as a
\* number above every 3 * samples_per_call. Followed for MaxErrorPeriods
\* iterations.
WhileTargets(frames) ==
    {WhileTarget(frames)}
        \cup (IF frames < 0 /\ frames >= -(MaxErrorPeriods * samples_per_call)
              THEN {"rs_read"} ELSE {})

\* A faulty round: an underrun is not followed by snd_pcm_prepare.
main_loop_state_no_prepare(pcm) ==
    /\ main_pc \in {"state", "refused"}
    /\ \E answer \in pcm.state :
          /\ pcmstate' = answer
          /\ main_pc' = "avail"
    /\ UNCHANGED <<channel_vars, midi_init_state, initialized, midi_vars,
                   is_paused, available_frames, rs_read_index, rs_write_index,
                   last_written_time, subbuf_counter, num, rs_result, os_result,
                   prefill_i, eas_renders, eas_config, write_vars, pool, device_vars,
                   eas_stream, overflow_count, log>>

\* pcmstate = snd_pcm_state(midi_pcm); if (pcmstate == SND_PCM_STATE_XRUN),
\* reached from either branch of the test of midi_event_written.
main_loop_state(pcm) ==
    /\ main_pc \in {"state", "refused"}
    /\ \E answer \in pcm.state :
          /\ pcmstate' = answer
          /\ main_pc' = IF answer = "SND_PCM_STATE_XRUN" THEN "prepare" ELSE "avail"
    /\ UNCHANGED <<channel_vars, midi_init_state, initialized, midi_vars,
                   is_paused, available_frames, rs_read_index, rs_write_index,
                   last_written_time, subbuf_counter, num, rs_result, os_result,
                   prefill_i, eas_renders, eas_config, write_vars, pool, device_vars,
                   eas_stream, overflow_count, log>>

\* After an underrun: the diagnostic and snd_pcm_prepare(midi_pcm).
main_loop_prepare ==
    /\ main_pc = "prepare"
    /\ main_pc' = "avail"
    /\ UNCHANGED <<channel_vars, midi_init_state, initialized, midi_vars,
                   is_paused, available_frames, rs_read_index, rs_write_index,
                   tick_vars, device_vars, eas_stream, overflow_count, log>>

\* available_frames = snd_pcm_avail_update(midi_pcm).
main_loop_avail(pcm) ==
    /\ main_pc = "avail"
    /\ \E frames \in pcm.avail : available_frames' = frames
    /\ pcmstate' = "none"
    /\ main_pc' = "while"
    /\ UNCHANGED <<channel_vars, midi_init_state, initialized, midi_vars,
                   is_paused, rs_read_index, rs_write_index,
                   last_written_time, subbuf_counter, num, rs_result, os_result,
                   prefill_i, eas_renders, eas_config, write_vars, pool, device_vars,
                   eas_stream, overflow_count, log>>

\* The test of the inner while: render_subbuffer(subbuf_counter) is called,
\* or the round of while (1) ends, and available_frames with it.
main_loop_while ==
    /\ main_pc = "while"
    /\ \E target \in WhileTargets(available_frames) :
          /\ main_pc' = target
          /\ IF target = "tick"
             THEN /\ available_frames' = 0
                  /\ UNCHANGED num
             ELSE /\ num' = subbuf_counter
                  /\ UNCHANGED available_frames
    /\ UNCHANGED <<channel_vars, midi_init_state, initialized, midi_vars,
                   is_paused, rs_read_index, rs_write_index, last_written_time,
                   subbuf_counter, rs_result, os_result, prefill_i, synth_vars, device_vars,
                   eas_stream, overflow_count, log>>

\* main_loop reports a negative render_subbuffer and calls
\* output_subbuffer(subbuf_counter): the device takes the period, or a
\* snd_pcm_writei fails and -1 is returned.
output_subbuffer(pcm) ==
    /\ main_pc = "output"
    /\ num' = subbuf_counter
    /\ \E written \in pcm.written : os_result' = IF written THEN 0 ELSE -1
    /\ main_pc' = "advance"
    /\ UNCHANGED <<channel_vars, midi_init_state, initialized, midi_vars,
                   is_paused, available_frames, rs_read_index, rs_write_index,
                   last_written_time, subbuf_counter, rs_result, prefill_i, synth_vars,
                   device_vars, eas_stream, overflow_count, log>>

\* A faulty end of the iteration: a failed write ends the program.
main_loop_advance_stops ==
    /\ main_pc = "advance"
    /\ IF os_result < 0
       THEN /\ available_frames' = 0
            /\ main_pc' = "exit"
            /\ midi_init_state' = -1
            /\ UNCHANGED subbuf_counter
       ELSE /\ available_frames' = available_frames - samples_per_call
            /\ subbuf_counter' = IF subbuf_counter + 1 = num_subbuffers
                                 THEN 0 ELSE subbuf_counter + 1
            /\ main_pc' = "while"
            /\ UNCHANGED midi_init_state
    /\ num' = -1
    /\ rs_result' = 0
    /\ os_result' = 0
    /\ UNCHANGED <<channel_vars, initialized, midi_vars,
                   is_paused, rs_read_index, rs_write_index, last_written_time,
                   prefill_i, synth_vars, device_vars, eas_stream, overflow_count, log>>

\* A faulty end of the iteration: a failed write moves on to the next slot.
main_loop_advance_skips_slot ==
    /\ main_pc = "advance"
    /\ IF os_result < 0
       THEN /\ available_frames' = 0
            /\ main_pc' = "tick"
            /\ subbuf_counter' = IF subbuf_counter + 1 = num_subbuffers
                                 THEN 0 ELSE subbuf_counter + 1
       ELSE /\ available_frames' = available_frames - samples_per_call
            /\ subbuf_counter' = IF subbuf_counter + 1 = num_subbuffers
                                 THEN 0 ELSE subbuf_counter + 1
            /\ main_pc' = "while"
    /\ num' = -1
    /\ rs_result' = 0
    /\ os_result' = 0
    /\ UNCHANGED <<channel_vars, midi_init_state, initialized, midi_vars,
                   is_paused, rs_read_index, rs_write_index, last_written_time,
                   prefill_i, synth_vars, device_vars, eas_stream, overflow_count, log>>

\* A faulty end of the iteration: the counter wraps one slot late.
main_loop_advance_no_wrap ==
    /\ main_pc = "advance"
    /\ IF os_result < 0
       THEN /\ available_frames' = 0
            /\ main_pc' = "tick"
            /\ UNCHANGED subbuf_counter
       ELSE /\ available_frames' = available_frames - samples_per_call
            /\ subbuf_counter' = IF subbuf_counter = num_subbuffers
                                 THEN 0 ELSE subbuf_counter + 1
            /\ main_pc' = "while"
    /\ num' = -1
    /\ rs_result' = 0
    /\ os_result' = 0
    /\ UNCHANGED <<channel_vars, midi_init_state, initialized, midi_vars,
                   is_paused, rs_read_index, rs_write_index, last_written_time,
                   prefill_i, synth_vars, device_vars, eas_stream, overflow_count, log>>

\* After output_subbuffer: on failure available_frames = 0 and break;
\* otherwise one period less, and subbuf_counter one further round the pool.
main_loop_advance ==
    /\ main_pc = "advance"
    /\ IF os_result < 0
       THEN /\ available_frames' = 0
            /\ main_pc' = "tick"
            /\ UNCHANGED subbuf_counter
       ELSE /\ available_frames' = available_frames - samples_per_call
            /\ subbuf_counter' = IF subbuf_counter + 1 = num_subbuffers
                                 THEN 0 ELSE subbuf_counter + 1
            /\ main_pc' = "while"
    /\ num' = -1
    /\ rs_result' = 0
    /\ os_result' = 0
    /\ UNCHANGED <<channel_vars, midi_init_state, initialized, midi_vars,
                   is_paused, rs_read_index, rs_write_index, last_written_time,
                   prefill_i, synth_vars, device_vars, eas_stream, overflow_count, log>>

\* The monotonic clock read by clock_gettime: one second later.
monotonic_clock ==
    /\ now < MaxTime
    /\ now' = now + 1
    /\ UNCHANGED <<channel_vars, midi_init_state, initialized, midi_vars,
                   main_pc, is_paused, available_frames, rs_read_index,
                   rs_write_index, tick_vars, pcm_paused, data_handle, midi_pcm,
                   midi_seq, eas_stream, overflow_count, log>>

main(pcm) ==
    \/ start_synth
    \/ start_thread
    \/ start_thread_wait
    \/ open_pcm_output
    \/ open_midi_port
    \/ main_loop_prefill
    \/ main_loop_first_pause
    \/ main_loop_clear_flag
    \/ main_loop_set_running
    \/ main_loop_tick
    \/ main_loop_activity
    \/ main_loop_unpause
    \/ main_loop_state(pcm)
    \/ main_loop_prepare
    \/ main_loop_avail(pcm)
    \/ main_loop_while
    \/ render_subbuffer(pcm)
    \/ output_subbuffer(pcm)
    \/ main_loop_advance

(***************************************************************************)
(* The program                                                             *)
(***************************************************************************)

\* The process at the entry of main: statics are zero, no thread yet.
Init ==
    /\ event_buffer = [i \in Indices |-> 0]
    /\ event_read_index = 0
    /\ event_write_index = 0
    /\ midi_event_written = 0
    /\ midi_init_state = 0
    /\ initialized = 0
    /\ midi_pc = "none"
    /\ running_status = 0
    /\ we_event = <<>>
    /\ we_read_index = 0
    /\ we_write_index = 0
    /\ main_pc = "start_synth"
    /\ is_paused = FALSE
    /\ available_frames = 0
    /\ rs_read_index = 0
    /\ rs_write_index = 0
    /\ last_written_time = Unset
    /\ subbuf_counter = 0
    /\ num = -1
    /\ rs_result = 0
    /\ os_result = 0
    /\ prefill_i = 0
    /\ now = 0
    /\ pcm_paused = FALSE
    /\ data_handle = "NULL"
    /\ midi_pcm = "NULL"
    /\ midi_seq = "NULL"
    /\ pcmstate = "none"
    /\ eas_renders = 0
    /\ eas_config = <<>>
    /\ remaining = 0
    /\ buf_ptr = 0
    /\ handed = <<>>
    /\ pool = <<>>
    /\ eas_stream = <<>>
    /\ overflow_count = 0
    /\ log = <<>>

\* A system-exclusive fragment of n bytes, its bytes telling which event (k)
\* and which position they come from.
Payload(k, n) == [i \in 1 .. n |-> (16 * k + i) % 128]

\* Spec: chunks of 1, 3 (2 under running status) and BufSize - 1 bytes.
SourceEvents ==
    [k \in 1 .. MaxEvents |->
    { SysexEvent(Payload(k, 1)),
      SysexEvent(Payload(k, BufSize - 1)),
      NoteEvent("NOTEON", 0, 60, 100) }]

Next == midi_thread_proc(SourceEvents, MaxEvents) \/ main(FewAnswers)

Spec == Init /\ [][Next]_vars

\* SpecRpn: the same program fed registered-parameter changes on two
\* channels (bursts of 9 bytes, 8 under running status) and single bytes.
RpnEvents ==
    [k \in 1 .. MaxRpnEvents |->
    { ControlEvent("REGPARAM", 0, 0, 256),
      ControlEvent("REGPARAM", 15, 16383, 8192 + 5),
      SysexEvent(Payload(k, 1)) }]

NextRpn == midi_thread_proc(RpnEvents, MaxRpnEvents) \/ main(FewAnswers)

SpecRpn == Init /\ [][NextRpn]_vars

\* SpecLoop: the program with a synthesizer and a device that answer
\* anything, fed system-exclusive data that fills the buffer, then single
\* bytes, or data too long for the buffer.
LoopEvents ==
    [k \in 1 .. MaxLoopEvents |->
    { SysexEvent(Payload(k, IF k = 1 THEN BufSize - 1 ELSE 1)),
      SysexEvent(Payload(k, BufSize)) }]

NextLoop == midi_thread_proc(LoopEvents, MaxLoopEvents) \/ main(AnyAnswer)

SpecLoop == Init /\ [][NextLoop]_vars

\* SpecIdle: the same program and events with a clock that runs, and the
\* device of Spec.
NextIdle == midi_thread_proc(LoopEvents, MaxLoopEvents) \/ main(FewAnswers) \/ monotonic_clock

SpecIdle == Init /\ [][NextIdle]_vars

\* SpecStall: the program with a clock that runs, a synthesizer that
\* renders and a device that takes what is written and has two periods
\* free (what main_loop_prefill leaves free of num_subbuffers periods) or
\* three at a tick, fed system-exclusive data: one byte or BufSize - 2
\* bytes, then chunks of three bytes.
StallEvents ==
    [k \in 1 .. MaxStallEvents |->
    IF k = 1
    THEN { SysexEvent(Payload(k, 1)), SysexEvent(Payload(k, BufSize - 2)) }
    ELSE { SysexEvent(Payload(k, 3)) }]

StallAnswers ==
    [state |-> PcmStates,
     avail |-> {2 * samples_per_call, 3 * samples_per_call},
     render |-> {<<"EAS_SUCCESS", samples_per_call>>},
     written |-> {TRUE}]

NextStall == midi_thread_proc(StallEvents, MaxStallEvents) \/ main(StallAnswers) \/ monotonic_clock

SpecStall == Init /\ [][NextStall]_vars

\* The answers of StallAnswers with three periods free.
RoomyAnswers == [StallAnswers EXCEPT !.avail = {3 * samples_per_call}]

\* SpecStallFair: SpecStall with both threads scheduled: the main thread
\* keeps taking its steps (while (1) with a nanosleep of 10 ms), the capture
\* thread completes the write_event it has begun, and a device that is asked
\* for its free frames again and again answers three periods again and
\* again. No event has to arrive and the clock need not run.
FairStall ==
    /\ WF_vars(main(StallAnswers))
    /\ WF_vars(midi_thread_proc_init \/ wait_for_midi_initialization
                   \/ midi_thread_proc_loop \/ write_event)
    /\ SF_vars(main_loop_avail(RoomyAnswers))

SpecStallFair == SpecStall /\ FairStall

(***************************************************************************)
(* The encoder on its own: the capture thread inside its loop, the main    *)
(* thread asleep between two ticks.                                        *)
(***************************************************************************)

\* The program once main_loop has set midi_init_state = 1 and the capture
\* thread has left wait_for_midi_initialization.
InitRunning ==
    /\ event_buffer = [i \in Indices |-> 0]
    /\ event_read_index = 0
    /\ event_write_index = 0
    /\ midi_event_written = 0
    /\ midi_init_state = 1
    /\ initialized = 1
    /\ midi_pc = "loop"
    /\ running_status = 0
    /\ we_event = <<>>
    /\ we_read_index = 0
    /\ we_write_index = 0
    /\ main_pc = "tick"
    /\ is_paused \in BOOLEAN
    /\ available_frames = 0
    /\ rs_read_index = 0
    /\ rs_write_index = 0
    /\ last_written_time = (IF is_paused THEN Unset ELSE 0)
    /\ subbuf_counter = 0
    /\ num = -1
    /\ rs_result = 0
    /\ os_result = 0
    /\ prefill_i = num_subbuffers
    /\ now = 0
    /\ pcm_paused = is_paused
    /\ data_handle = "open"
    /\ midi_pcm = "open"
    /\ midi_seq = "open"
    /\ pcmstate = "none"
    /\ eas_renders = 0
    /\ eas_config = <<>>
    /\ remaining = 0
    /\ buf_ptr = 0
    /\ handed = <<>>
    /\ pool = <<>>
    /\ eas_stream = <<>>
    /\ overflow_count = 0
    /\ log = <<>>

Channels == 0 .. 15

\* SpecRun: sequences of events on two channels around system-exclusive data.
RunEvents ==
    [k \in 1 .. MaxRunEvents |->
    { NoteEvent("NOTEON", 0, 60, 100),
      NoteEvent("NOTEON", 0, 64, 90),
      NoteEvent("NOTEOFF", 0, 60, 64),
      NoteEvent("NOTEON", 1, 60, 100),
      ControlEvent("CONTROLLER", 0, 7, 100),
      SysexEvent(<<240, 144, 247>>),
      OtherEvent("KEYPRESS"),
      ControlEvent("CONTROL14", 0, 40, 5) }]

NextRun == capture_loop(RunEvents, MaxRunEvents)

SpecRun == InitRunning /\ [][NextRun]_vars

\* SpecEnc: one event that sets the running status (or does not), then one
\* event out of every channel message on every channel.
EncSetupEvents ==
    { OtherEvent("KEYPRESS"),
      SysexEvent(<<240, 1, 247>>) }
    \cup { NoteEvent("NOTEON", c, 60, 100) : c \in {0, 15} }
    \cup { ControlEvent("CONTROLLER", c, 7, 100) : c \in {0, 15} }

EncMessageEvents ==
    { NoteEvent(t, c, n, v) :
        t \in {"NOTEON", "NOTEOFF"}, c \in Channels, n \in {0, 60, 127}, v \in {0, 100, 127} }
    \cup { ControlEvent("CONTROLLER", c, p, v) :
             c \in Channels, p \in {0, 7, 127}, v \in {0, 64, 127} }
    \cup { ControlEvent(t, c, 0, v) :
             t \in {"PGMCHANGE", "CHANPRESS"}, c \in Channels, v \in {0, 5, 127} }
    \cup { ControlEvent("CONTROL14", c, p, v) :
             c \in Channels, p \in {0, 1, 31, 32, 100}, v \in {0, 4660, 16383} }

EncEvents == [k \in 1 .. MaxEncEvents |-> IF k = 2 THEN EncMessageEvents ELSE EncSetupEvents]

NextEnc == capture_loop(EncEvents, MaxEncEvents)

SpecEnc == InitRunning /\ [][NextEnc]_vars

\* SpecBend: one event that sets the running status (or does not), then a
\* pitch bend: every value of the 14-bit range on channel 0, and the ends and
\* the middle of the range on every channel.
BendSetupEvents ==
    { OtherEvent("KEYPRESS"),
      ControlEvent("PITCHBEND", 0, 0, 0),
      ControlEvent("PITCHBEND", 15, 0, 100) }

BendMessageEvents ==
    { ControlEvent("PITCHBEND", 0, 0, v) : v \in (-8192) .. 8191 }
    \cup { ControlEvent("PITCHBEND", c, 0, v) :
             c \in Channels, v \in {-8192, -8191, -129, -128, -1, 0, 1, 127, 128, 8190, 8191} }

BendEvents == [k \in 1 .. MaxBendEvents |-> IF k = 2 THEN BendMessageEvents ELSE BendSetupEvents]

NextBend == capture_loop(BendEvents, MaxBendEvents)

SpecBend == InitRunning /\ [][NextBend]_vars

\* SpecNoop: one event that sets the running status and fills the buffer (or
\* does not), then one event out of every case that encodes nothing, of the
\* two subscription events and of two types the switch does not name, then
\* again an event of the first kind.
NoopSetupEvents ==
    { NoteEvent("NOTEON", 0, 60, 100),
      ControlEvent("CONTROLLER", 15, 7, 100),
      SysexEvent(<<240, 1, 247>>),
      OtherEvent("CLOCK") }

NoopMessageEvents ==
    { NoteEvent("KEYPRESS", c, 60, 100) : c \in {0, 15} }
    \cup { ControlEvent("NONREGPARAM", c, 16383, 8192) : c \in {0, 15} }
    \cup { OtherEvent(t) : t \in (NotUsed \ {"KEYPRESS", "NONREGPARAM"}) }
    \cup { OtherEvent(t) : t \in Subscription }
    \cup { OtherEvent(t) : t \in {"PORT_START", "USR0"} }

NoopEvents == [k \in 1 .. MaxNoopEvents |-> IF k = 2 THEN NoopMessageEvents ELSE NoopSetupEvents]

NextNoop == capture_loop(NoopEvents, MaxNoopEvents)

SpecNoop == InitRunning /\ [][NextNoop]_vars

(***************************************************************************)
(* start_synth: the size of the staging pool                               *)
(***************************************************************************)

\* sizeof(EAS_PCM): the synthesizer renders 16-bit samples.
sizeof_EAS_PCM == 2

\* sizeof(midi_buffer)
midi_buffer_size == 65536

\* What EAS_Config() may describe: channels, sample rates and mix buffer
\* sizes of the builds of the synthesizer, none of them 0; every product below
\* stays far under 2^31, so no unsigned int or int64_t wraps.
Configs ==
    [numChannels : {1, 2},
     sampleRate : {8000, 11025, 16000, 22050, 32000, 44100, 48000},
     mixBufferSize : {16, 32, 64, 128, 256, 512, 1024, 2048, 4096, 8192}]

\* bytes_per_call = samples_per_call * num_channels * sizeof(EAS_PCM);
bytes_per_call(config) ==
    config.mixBufferSize * config.numChannels * sizeof_EAS_PCM

\* (4096 * (int64_t)frequency) / (11025 * (int64_t)samples_per_call)
wanted_subbuffers(config) ==
    (4096 * config.sampleRate) \div (11025 * config.mixBufferSize)

\* A faulty cap: none.
capped_subbuffers_none(config) == wanted_subbuffers(config)

\* if (num_subbuffers > 65536 / bytes_per_call) num_subbuffers = 65536 / bytes_per_call;
capped_subbuffers(config) ==
    IF wanted_subbuffers(config) > midi_buffer_size \div bytes_per_call(config)
    THEN midi_buffer_size \div bytes_per_call(config)
    ELSE wanted_subbuffers(config)

\* A faulty test: pools of two and three slots are let through.
too_few_subbuffers_below_two(n) == n < 2

\* if (num_subbuffers < 4) return -1;
too_few_subbuffers(n) == n < 4

\* start_synth up to the test of num_subbuffers: bytes_per_call and
\* num_subbuffers from the configuration; "Unsupported EAS parameters" and
\* return -1, or on to EAS_Init.
start_synth_pool ==
    /\ main_pc = "start_synth"
    /\ eas_config # <<>>
    /\ pool = <<>>
    /\ pool' = [bytes_per_call |-> bytes_per_call(eas_config),
                num_subbuffers |-> capped_subbuffers(eas_config)]
    /\ main_pc' = IF too_few_subbuffers(capped_subbuffers(eas_config))
                  THEN "exit" ELSE "EAS_Init"
    /\ UNCHANGED <<channel_vars, midi_init_state, initialized, midi_vars,
                   is_paused, available_frames, rs_read_index, rs_write_index,
                   last_written_time, subbuf_counter, num, rs_result, os_result,
                   prefill_i, pcmstate, eas_renders, eas_config, write_vars, device_vars,
                   eas_stream, overflow_count, log>>

\* SpecConfig: start_synth's computation for every configuration.
InitConfig ==
    /\ event_buffer = [i \in Indices |-> 0]
    /\ event_read_index = 0
    /\ event_write_index = 0
    /\ midi_event_written = 0
    /\ midi_init_state = 0
    /\ initialized = 0
    /\ midi_pc = "none"
    /\ running_status = 0
    /\ we_event = <<>>
    /\ we_read_index = 0
    /\ we_write_index = 0
    /\ main_pc = "start_synth"
    /\ is_paused = FALSE
    /\ available_frames = 0
    /\ rs_read_index = 0
    /\ rs_write_index = 0
    /\ last_written_time = Unset
    /\ subbuf_counter = 0
    /\ num = -1
    /\ rs_result = 0
    /\ os_result = 0
    /\ prefill_i = 0
    /\ now = 0
    /\ pcm_paused = FALSE
    /\ data_handle = "NULL"
    /\ midi_pcm = "NULL"
    /\ midi_seq = "NULL"
    /\ pcmstate = "none"
    /\ eas_renders = 0
    /\ eas_config \in Configs
    /\ remaining = 0
    /\ buf_ptr = 0
    /\ handed = <<>>
    /\ pool = <<>>
    /\ eas_stream = <<>>
    /\ overflow_count = 0
    /\ log = <<>>

NextConfig == start_synth_pool

SpecConfig == InitConfig /\ [][NextConfig]_vars

(***************************************************************************)
(* output_subbuffer: one period written to the device, call by call        *)
(***************************************************************************)

\* The configurations output_subbuffer is followed for: one or two channels
\* and periods short enough to follow every way in which the device can
\* take a period in parts.
WriteConfigs ==
    [numChannels : {1, 2},
     sampleRate : {8000, 44100},
     mixBufferSize : {samples_per_call, 2 * samples_per_call}]

\* The bytes of one frame of the device: open_pcm_output sets
\* SND_PCM_FORMAT_S16 and num_channels channels, interleaved.
frame_bytes(config) == config.numChannels * sizeof_EAS_PCM

\* The slots output_subbuffer is followed for: the first two and the last.
WriteSlots(n) == {0, 1, n - 1}

\* written << 2
shift_left_2(written) == written * 4

\* remaining = samples_per_call; buf_ptr = &(midi_buffer[num * bytes_per_call]);
output_subbuffer_enter ==
    /\ main_pc = "output_subbuffer"
    /\ remaining' = eas_config.mixBufferSize
    /\ buf_ptr' = num * pool.bytes_per_call
    /\ handed' = <<>>
    /\ main_pc' = "os_while"
    /\ UNCHANGED <<channel_vars, midi_init_state, initialized, midi_vars,
                   is_paused, available_frames, rs_read_index, rs_write_index,
                   last_written_time, subbuf_counter, num, rs_result, os_result,
                   prefill_i, pcmstate, eas_renders, eas_config, pool,
                   device_vars, eas_stream, overflow_count, log>>

\* One test of while (remaining) and, if it holds, one call
\* written = snd_pcm_writei(midi_pcm, buf_ptr, remaining): the device fails,
\* or accepts 0 to remaining frames, which it reads from buf_ptr on, frame
\* after frame; then remaining -= written; buf_ptr += written << 2.
output_subbuffer_writei ==
    /\ main_pc = "os_while"
    /\ IF remaining = 0
       THEN /\ os_result' = 0
            /\ main_pc' = "os_return"
            /\ UNCHANGED write_vars
       ELSE \E written \in (-1) .. remaining :
               IF written < 0
               THEN /\ os_result' = -1
                    /\ main_pc' = "os_return"
                    /\ UNCHANGED write_vars
               ELSE /\ handed' = handed \o
                          [k \in 1 .. written |->
                              buf_ptr + (k - 1) * frame_bytes(eas_config)]
                    /\ remaining' = remaining - written
                    /\ buf_ptr' = buf_ptr + shift_left_2(written)
                    /\ UNCHANGED <<main_pc, os_result>>
    /\ UNCHANGED <<channel_vars, midi_init_state, initialized, midi_vars,
                   is_paused, available_frames, rs_read_index, rs_write_index,
                   last_written_time, subbuf_counter, num, rs_result,
                   prefill_i, pcmstate, eas_renders, eas_config, pool,
                   device_vars, eas_stream, overflow_count, log>>

\* SpecWrite: output_subbuffer(num) on its own, called for a slot of the
\* pool start_synth has sized for the configuration.
InitWrite ==
    /\ eas_config \in {config \in WriteConfigs : ~too_few_subbuffers(capped_subbuffers(config))}
    /\ pool = [bytes_per_call |-> bytes_per_call(eas_config),
               num_subbuffers |-> capped_subbuffers(eas_config)]
    /\ num \in WriteSlots(capped_subbuffers(eas_config))
    /\ event_buffer = [i \in Indices |-> 0]
    /\ event_read_index = 0
    /\ event_write_index = 0
    /\ midi_event_written = 0
    /\ midi_init_state = 0
    /\ initialized = 0
    /\ midi_pc = "none"
    /\ running_status = 0
    /\ we_event = <<>>
    /\ we_read_index = 0
    /\ we_write_index = 0
    /\ main_pc = "output_subbuffer"
    /\ is_paused = FALSE
    /\ available_frames = 0
    /\ rs_read_index = 0
    /\ rs_write_index = 0
    /\ last_written_time = Unset
    /\ subbuf_counter = 0
    /\ rs_result = 0
    /\ os_result = 0
    /\ prefill_i = 0
    /\ now = 0
    /\ pcm_paused = FALSE
    /\ data_handle = "NULL"
    /\ midi_pcm = "NULL"
    /\ midi_seq = "NULL"
    /\ pcmstate = "none"
    /\ eas_renders = 0
    /\ remaining = 0
    /\ buf_ptr = 0
    /\ handed = <<>>
    /\ eas_stream = <<>>
    /\ overflow_count = 0
    /\ log = <<>>

NextWrite == output_subbuffer_enter \/ output_subbuffer_writei

SpecWrite == InitWrite /\ [][NextWrite]_vars

(***************************************************************************)
(* What the history says                                                   *)
(***************************************************************************)

\* The chunks write_event has published among the first n events, concatenated.
RECURSIVE PublishedUpTo(_)
PublishedUpTo(n) ==
    IF n = 0 THEN <<>>
    ELSE PublishedUpTo(n - 1) \o (IF log[n].result = "written" THEN log[n].data ELSE <<>>)

PublishedBytes == PublishedUpTo(Len(log))

\* The bytes of event_buffer from index from up to, not including, index to,
\* going round the end of the buffer.
Region(from, to) ==
    IF from <= to THEN Span(from, to) ELSE Span(from, BufSize) \o Span(0, to)

\* Where the bytes not yet handed to the synthesizer start: the consumer has
\* forwarded up to the end of the buffer (before its second span), up to its
\* snapshot of the write index (before it updates event_read_index), or
\* nothing beyond event_read_index.
ForwardedUpTo ==
    CASE main_pc = "rs_span2" -> 0
      [] main_pc = "rs_update" -> rs_write_index
      [] OTHER -> event_read_index

\* Bytes forwarded by the drain in progress and not yet released.
InFlight ==
    CASE main_pc = "rs_span2" -> BufSize - event_read_index
      [] main_pc = "rs_update" -> (rs_write_index - event_read_index) % BufSize
      [] OTHER -> 0

\* Published bytes the consumer has not released yet, counted from the history.
TrueOccupied == Len(PublishedBytes) - Len(eas_stream) + InFlight

IsPrefix(s, t) == Len(s) <= Len(t) /\ s = SubSeq(t, 1, Len(s))

(***************************************************************************)
(* C1. FIFO delivery: in every state of every interleaving of write_event  *)
(* and render_subbuffer, the bytes handed to the synthesizer are a prefix  *)
(* of the concatenation of the published chunks, and together with the     *)
(* bytes still waiting in the buffer they are exactly that concatenation:  *)
(* nothing is lost, duplicated or reordered, across any number of wraps.   *)
(***************************************************************************)
C1_FifoDelivery ==
    /\ IsPrefix(eas_stream, PublishedBytes)
    /\ eas_stream \o Region(ForwardedUpTo, event_write_index) = PublishedBytes

\* Three chunks of BufSize - 1 bytes have gone through: the region wrapped twice.
C1_Witness ==
    /\ Len(log) = 3
    /\ \A i \in 1 .. 3 : log[i].result = "written" /\ Len(log[i].data) = BufSize - 1
    /\ eas_stream = PublishedBytes
    /\ Len(eas_stream) > 2 * BufSize

(***************************************************************************)
(* C2. All-or-nothing enqueue: the bytes waiting in the buffer always      *)
(* start at a chunk boundary of the published stream (no part of a chunk   *)
(* is ever visible), event_write_index has advanced by exactly the length  *)
(* of every published chunk modulo the buffer size, every dropped chunk    *)
(* has produced one overflow diagnostic, and the step that drops a chunk   *)
(* is taken exactly when its length exceeds the free space computed from   *)
(* write_event's snapshot and changes neither the buffer, nor an index,    *)
(* nor the notification flag.                                              *)
(***************************************************************************)
C2_WholeChunks ==
    /\ \E n \in 0 .. Len(log) :
          Region(event_read_index, event_write_index) =
             SubSeq(PublishedBytes, Len(PublishedUpTo(n)) + 1, Len(PublishedBytes))
    /\ event_write_index = Len(PublishedBytes) % BufSize
    /\ overflow_count = Cardinality({i \in 1 .. Len(log) : log[i].result = "dropped"})
    /\ \A i \in 1 .. Len(log) :
          log[i].result = "pending" => i = Len(log) /\ midi_pc \in {"we_read", "we_check", "we_copy", "we_publish"}

\* The free space left by the snapshot, in closed form.
C2_SnapshotFree == (we_read_index - event_write_index - 1) % BufSize

C2_DropStep ==
    /\ (midi_pc = "we_check" /\ midi_pc' # "we_check") =>
          ((overflow_count' # overflow_count) <=> (Len(we_event) > C2_SnapshotFree))
    /\ (overflow_count' # overflow_count) =>
          /\ overflow_count' = overflow_count + 1
          /\ midi_pc = "we_check" /\ midi_pc' = "loop"
          /\ log[Len(log)].result = "pending" /\ log'[Len(log)].result = "dropped"
          /\ UNCHANGED <<event_buffer, event_write_index, event_read_index, midi_event_written>>

C2_AllOrNothing == [](C2_WholeChunks) /\ [][C2_DropStep]_vars

\* A chunk was dropped while bytes were waiting, and a later chunk was published.
C2_Witness ==
    \E i \in 1 .. Len(log), j \in 1 .. Len(log) :
       /\ i < j
       /\ log[i].result = "dropped"
       /\ log[j].result = "written"
       /\ overflow_count = 1
       /\ Len(log[j].data) > 0

(***************************************************************************)
(* C3. Occupancy: both indices stay inside the buffer; the distance from   *)
(* event_read_index to event_write_index modulo the buffer size is the     *)
(* true number of published, unreleased bytes, which never exceeds         *)
(* BufSize - 1 (so equal indices always mean empty); while write_event     *)
(* copies, the free space it computed from its snapshot is at most the     *)
(* true free space, and the cell it is about to store to holds no byte     *)
(* that is still to be forwarded.                                          *)
(***************************************************************************)
C3_OccupiedCells == {(event_read_index + k) % BufSize : k \in 0 .. (TrueOccupied - 1)}

C3_Occupancy ==
    /\ event_read_index \in Indices
    /\ event_write_index \in Indices
    /\ TrueOccupied \in 0 .. (BufSize - 1)
    /\ (event_write_index - event_read_index) % BufSize = TrueOccupied
    /\ (event_read_index = event_write_index) <=> (TrueOccupied = 0)
    /\ midi_pc = "we_copy" =>
          /\ (we_read_index - event_write_index - 1) % BufSize <= (BufSize - 1) - TrueOccupied
          /\ we_event # <<>> => we_write_index \notin C3_OccupiedCells

\* write_event copies with a snapshot of event_read_index that is stale, and
\* that showed it a region going round the end of the buffer.
C3_Witness ==
    /\ midi_pc = "we_copy"
    /\ we_event # <<>>
    /\ we_read_index # event_read_index
    /\ event_write_index < we_read_index

(***************************************************************************)
(* C4. Single-writer discipline: once the capture thread exists, no step   *)
(* of the capture thread changes event_read_index and no step of the main  *)
(* thread changes event_write_index; event_write_index changes only in     *)
(* write_event's publishing store and event_read_index only in             *)
(* render_subbuffer's update; start_synth, which zeroes both, runs only    *)
(* while no capture thread exists.                                         *)
(***************************************************************************)
C4_Step ==
    /\ (midi_pc # "none" /\ midi_vars' # midi_vars) => event_read_index' = event_read_index
    /\ (midi_pc # "none" /\ main_vars' # main_vars) => event_write_index' = event_write_index
    /\ event_write_index' # event_write_index => midi_pc = "we_publish" /\ main_vars' = main_vars
    /\ event_read_index' # event_read_index => main_pc = "rs_update" /\ midi_vars' = midi_vars
    /\ main_pc = "start_synth" => midi_pc = "none"

C4_SingleWriter == [][C4_Step]_vars

\* Both threads are in the middle of their index protocol, both indices moved.
C4_Witness ==
    /\ midi_pc = "we_publish"
    /\ main_pc = "rs_update"
    /\ event_read_index # 0
    /\ we_write_index # event_write_index
    /\ rs_write_index # event_read_index

(***************************************************************************)
(* What MIDI says about the events, written without the encoder            *)
(***************************************************************************)

\* The status byte of a channel message.
ExpectedStatus(event) ==
    CASE event.type \in {"NOTEON", "NOTEOFF"} -> 144 + event.channel
      [] event.type \in {"CONTROLLER", "CONTROL14", "REGPARAM"} -> 176 + event.channel
      [] event.type = "PGMCHANGE" -> 192 + event.channel
      [] event.type = "CHANPRESS" -> 208 + event.channel
      [] event.type = "PITCHBEND" -> 224 + event.channel

\* Its length with the status byte.
FullLength(event) ==
    CASE event.type \in {"NOTEON", "NOTEOFF", "CONTROLLER", "PITCHBEND"} -> 3
      [] event.type \in {"PGMCHANGE", "CHANPRESS"} -> 2
      [] event.type = "CONTROL14" -> 5
      [] event.type = "REGPARAM" -> 9

\* Event i made process_event call write_event; it is a channel message.
Enqueues(i) == log[i].result # "none"
IsChannelMessage(i) == Enqueues(i) /\ log[i].event.type # "SYSEX"

\* The last event before i that made process_event call write_event, or 0.
PreviousEnqueue(i) ==
    LET before == {j \in 1 .. (i - 1) : Enqueues(j)} IN
    IF before = {} THEN 0 ELSE CHOOSE j \in before : \A h \in before : h <= j

HasStatus(i) ==
    /\ Len(log[i].data) = FullLength(log[i].event)
    /\ log[i].data[1] = ExpectedStatus(log[i].event)

HasNoStatus(i) == Len(log[i].data) = FullLength(log[i].event) - 1

\* Everything the buffer has been given and still holds or has passed on.
Delivered == eas_stream \o Region(ForwardedUpTo, event_write_index)

(***************************************************************************)
(* C5. Running status: the first channel message after the capture loop    *)
(* starts carries its status byte (running_status starts at 0, which is no *)
(* status byte); every later channel message carries its status byte       *)
(* exactly when the previous enqueued message was system-exclusive data or *)
(* a channel message of another status; running_status is the status of    *)
(* the last enqueued channel message. Hence a sequence of note-on and      *)
(* note-off events on one channel contains the status byte once, and       *)
(* note-on 60/100, note-on 64/90 on channel 0 give [0x90,60,100], [64,90]. *)
(***************************************************************************)
C5_RunningStatus ==
    /\ \A i \in 1 .. Len(log) :
          IsChannelMessage(i) =>
             LET j == PreviousEnqueue(i) IN
             IF \/ j = 0
                \/ log[j].event.type = "SYSEX"
                \/ ExpectedStatus(log[j].event) # ExpectedStatus(log[i].event)
             THEN HasStatus(i) /\ log[i].status # ExpectedStatus(log[i].event)
             ELSE HasNoStatus(i) /\ log[i].status = ExpectedStatus(log[i].event)
    /\ LET j == PreviousEnqueue(Len(log) + 1) IN
       running_status = IF j = 0 \/ log[j].event.type = "SYSEX"
                        THEN 0
                        ELSE ExpectedStatus(log[j].event)
    /\ (/\ Len(log) > 0
        /\ \A i \in 1 .. Len(log) :
              /\ log[i].event.type \in {"NOTEON", "NOTEOFF"}
              /\ log[i].event.channel = log[1].event.channel)
       => Cardinality({i \in 1 .. Len(log) : HasStatus(i)}) = 1
    /\ (/\ Len(log) >= 2
        /\ log[1].event = NoteEvent("NOTEON", 0, 60, 100)
        /\ log[2].event = NoteEvent("NOTEON", 0, 64, 90))
       => log[1].data = <<144, 60, 100>> /\ log[2].data = <<64, 90>>

\* Note-on 60/100, note-on 64/90, note-off on channel 0, then a note-on on
\* channel 1: one status byte for the run of three, one for the fourth.
C5_Witness ==
    /\ Len(log) = 4
    /\ log[1].data = <<144, 60, 100>>
    /\ log[2].data = <<64, 90>>
    /\ log[3].event.type = "NOTEOFF" /\ log[3].data = <<60, 0>>
    /\ log[4].data = <<145, 60, 100>>

(***************************************************************************)
(* C6. System-exclusive data: process_event hands write_event exactly the  *)
(* payload, which is what the buffer then holds for it; running_status is  *)
(* 0 right after; the next channel message carries its full status byte,   *)
(* also when it is the same message as the one before the block.           *)
(***************************************************************************)
C6_Sysex ==
    \A i \in 1 .. Len(log) :
       log[i].event.type = "SYSEX" =>
          /\ Enqueues(i)
          /\ log[i].data = log[i].event.ptr
          /\ log[i].result = "written" =>
                SubSeq(Delivered, Len(PublishedUpTo(i - 1)) + 1, Len(PublishedUpTo(i)))
                   = log[i].event.ptr
          /\ (PreviousEnqueue(Len(log) + 1) = i) => running_status = 0
          /\ \A j \in (i + 1) .. Len(log) :
                (IsChannelMessage(j) /\ PreviousEnqueue(j) = i) => HasStatus(j)

\* Note-on, a system-exclusive block, the same note-on again: both note-ons
\* with their status byte.
C6_Witness ==
    /\ Len(log) >= 3
    /\ log[1].event = NoteEvent("NOTEON", 0, 60, 100)
    /\ log[2].event.type = "SYSEX" /\ log[2].result = "written"
    /\ log[3].event = NoteEvent("NOTEON", 0, 60, 100)
    /\ log[1].data = <<144, 60, 100>>
    /\ log[3].data = <<144, 60, 100>>

(***************************************************************************)
(* C7. Encoding table: when running_status differs from the status of the  *)
(* message, process_event emits [0x90|c, note, velocity] for note-on,      *)
(* [0x90|c, note, 0] for note-off, [0xB0|c, controller, value] for         *)
(* control-change, [0xC0|c, program] for program-change and [0xD0|c,       *)
(* value] for channel-pressure, for every channel c in 0..15; a note-off   *)
(* that follows a note-on on the same channel has no status byte.          *)
(***************************************************************************)
C7_Table(event) ==
    CASE event.type = "NOTEON" -> <<144 + event.channel, event.note, event.velocity>>
      [] event.type = "NOTEOFF" -> <<144 + event.channel, event.note, 0>>
      [] event.type = "CONTROLLER" -> <<176 + event.channel, event.param, event.value>>
      [] event.type = "PGMCHANGE" -> <<192 + event.channel, event.value>>
      [] event.type = "CHANPRESS" -> <<208 + event.channel, event.value>>

C7_Types == {"NOTEON", "NOTEOFF", "CONTROLLER", "PGMCHANGE", "CHANPRESS"}

C7_EncodingTable ==
    /\ \A i \in 1 .. Len(log) :
          (log[i].event.type \in C7_Types /\ log[i].status # ExpectedStatus(log[i].event))
             => log[i].data = C7_Table(log[i].event) /\ Enqueues(i)
    /\ \A i \in 2 .. Len(log) :
          (/\ log[i - 1].event.type = "NOTEON"
           /\ log[i].event.type = "NOTEOFF"
           /\ log[i].event.channel = log[i - 1].event.channel)
             => log[i].data = <<log[i].event.note, 0>>

\* A note-on on channel 15 followed by a note-off on channel 15 with a
\* release velocity: [0x9F,60,100] then [127,0].
C7_Witness ==
    /\ Len(log) = 2
    /\ log[1].event = NoteEvent("NOTEON", 15, 60, 100)
    /\ log[1].data = <<159, 60, 100>>
    /\ log[2].event = NoteEvent("NOTEOFF", 15, 127, 100)
    /\ log[2].data = <<127, 0>>

(***************************************************************************)
(* C8. Pitch bend: for every channel c in 0..15 and value v in             *)
(* -8192..8191 the message is status 0xE0|c (left out exactly when the     *)
(* running status is that status) and two data bytes lo, hi in 0..127      *)
(* with hi * 128 + lo - 8192 = v.                                          *)
(***************************************************************************)
C8_PitchBend ==
    \A i \in 1 .. Len(log) :
       log[i].event.type = "PITCHBEND" =>
          LET c == log[i].event.channel
              v == log[i].event.value
              d == log[i].data
              n == Len(d)
          IN  /\ Enqueues(i)
              /\ IF log[i].status = 224 + c THEN n = 2 ELSE n = 3 /\ d[1] = 224 + c
              /\ d[n - 1] \in 0 .. 127
              /\ d[n] \in 0 .. 127
              /\ d[n] * 128 + d[n - 1] - 8192 = v

\* The lowest value with its status byte, the highest under running status.
C8_Witness ==
    /\ Len(log) = 2
    /\ log[1].event.type = "PITCHBEND" /\ log[1].data = <<224, 0, 64>>
    /\ log[2].event.value = 8191 /\ log[2].data = <<127, 127>>

(***************************************************************************)
(* C9. 14-bit control-change: for controller p in 0..31 the chunk is       *)
(* [0xB0|c, p, (v>>7)&0x7f, p+32, v&0x7f], without its first byte when     *)
(* running_status is already 0xB0|c (controller 1, value 0x1234 gives      *)
(* [0xB0,1,0x24,33,0x34]); for any other p write_event is not called and   *)
(* running_status stays as it was.                                         *)
(***************************************************************************)
C9_Chunk(event) ==
    <<176 + event.channel,
      event.param,
      (event.value \div 128) % 128,
      event.param + 32,
      event.value % 128>>

\* running_status after event i: as event i+1 found it, or as it is now.
StatusAfter(i) == IF i < Len(log) THEN log[i + 1].status ELSE running_status

C9_Control14 ==
    \A i \in 1 .. Len(log) :
       log[i].event.type = "CONTROL14" =>
          LET e == log[i].event IN
          /\ (e.param \in 0 .. 31 /\ log[i].status # 176 + e.channel) =>
                log[i].data = C9_Chunk(e) /\ Enqueues(i) /\ StatusAfter(i) = 176 + e.channel
          /\ (e.param \in 0 .. 31 /\ log[i].status = 176 + e.channel) =>
                log[i].data = Tail(C9_Chunk(e)) /\ Enqueues(i) /\ StatusAfter(i) = 176 + e.channel
          /\ (e.param \notin 0 .. 31) =>
                log[i].data = <<>> /\ ~Enqueues(i) /\ StatusAfter(i) = log[i].status
          /\ e = ControlEvent("CONTROL14", 0, 1, 4660) =>
                log[i].data \in {<<176, 1, 36, 33, 52>>, <<1, 36, 33, 52>>}

\* Controller 1, value 0x1234 on channel 0, with its status byte and published.
C9_Witness ==
    /\ Len(log) = 2
    /\ log[2].event = ControlEvent("CONTROL14", 0, 1, 4660)
    /\ log[2].data = <<176, 1, 36, 33, 52>>
    /\ log[2].result = "written"

(***************************************************************************)
(* C10. Registered parameter: the burst [0xB0|c, 0x65, param>>7 & 0x7f,    *)
(* 0x64, param & 0x7f, 0x06, value>>7 & 0x7f, 0x26, value & 0x7f] (without *)
(* its first byte when running_status is already 0xB0|c) is given to       *)
(* write_event in one call; a published burst lies whole and contiguous in *)
(* the byte stream, a dropped or not yet published one has no byte in it.  *)
(***************************************************************************)
C10_Burst(event) ==
    <<176 + event.channel,
      101, (event.param \div 128) % 128,
      100, event.param % 128,
      6, (event.value \div 128) % 128,
      38, event.value % 128>>

C10_RegisteredParameter ==
    /\ Len(Delivered) = Len(PublishedBytes)
    /\ \A i \in 1 .. Len(log) :
          log[i].event.type = "REGPARAM" =>
             LET e == log[i].event IN
             /\ log[i].data = IF log[i].status = 176 + e.channel
                              THEN Tail(C10_Burst(e))
                              ELSE C10_Burst(e)
             /\ log[i].result \in {"pending", "written", "dropped"}
             /\ log[i].result = "written" =>
                   SubSeq(Delivered, Len(PublishedUpTo(i - 1)) + 1, Len(PublishedUpTo(i)))
                      = log[i].data

\* A 9-byte burst dropped for lack of space, an 8-byte burst (running status)
\* handed whole to the synthesizer.
C10_Witness ==
    \E i \in 1 .. Len(log), j \in 1 .. Len(log) :
       /\ log[i].event.type = "REGPARAM" /\ log[i].result = "dropped" /\ Len(log[i].data) = 9
       /\ log[j].event.type = "REGPARAM" /\ log[j].result = "written" /\ Len(log[j].data) = 8
       /\ eas_stream = PublishedBytes

(***************************************************************************)
(* C11: events that are not encoded                                        *)
(***************************************************************************)

\* The event types the claim lists, and two outside the switch.
C11_Types ==
    {"KEYPRESS", "NONREGPARAM", "QFRAME", "SONGPOS", "SONGSEL", "TUNE_REQUEST",
     "CLOCK", "TICK", "START", "CONTINUE", "STOP", "SENSING", "RESET",
     "PORT_SUBSCRIBED", "PORT_UNSUBSCRIBED", "PORT_START", "USR0"}

\* The step in which process_event is given an event of one of these types.
C11_Processed ==
    /\ Len(log') = Len(log) + 1
    /\ log'[Len(log')].event.type \in C11_Types

\* C11: processing a key-pressure, non-registered-parameter, quarter-frame,
\* song-position, song-select, tune-request, clock, tick, start, continue,
\* stop, active-sensing, reset or subscription event, or an event of a type
\* the switch does not name, changes no byte of event_buffer, neither
\* event_write_index nor running_status nor midi_event_written, and starts
\* no write_event: the capture thread is back at the test of its loop.
C11_NonEncoded ==
    [][C11_Processed =>
          /\ event_buffer' = event_buffer
          /\ event_write_index' = event_write_index
          /\ running_status' = running_status
          /\ midi_event_written' = midi_event_written
          /\ we_event' = <<>>
          /\ midi_pc' = "loop"
          /\ log'[Len(log')].result = "none"]_vars

\* A key-pressure event processed while a note-on is the running status and
\* its three bytes are in the buffer with the flag set; the note-on after it
\* goes without its status byte.
C11_Witness ==
    /\ Len(log) = 3
    /\ log[1].event.type = "NOTEON" /\ log[1].result = "written"
    /\ log[2].event.type = "KEYPRESS" /\ log[2].event.channel = 0
    /\ log[2].result = "none"
    /\ log[3].event.type = "NOTEON" /\ log[3].status = 144
    /\ log[3].data = <<60, 100>> /\ log[3].result = "written"
    /\ midi_event_written = 1
    /\ event_write_index = 5

(***************************************************************************)
(* C12: the rendezvous at startup                                          *)
(***************************************************************************)

\* main is past start_thread (and has not returned).
C12_PastStartThread ==
    main_pc \notin {"start_synth", "start_thread", "wait_thread", "exit"}

\* While midi_init_state is 0 the capture thread has not got beyond
\* wait_for_midi_initialization: no event asked for, none encoded, nothing
\* stored in the buffer.
C12_NotStarted ==
    midi_init_state = 0 =>
        /\ midi_pc \in {"none", "init", "wait"}
        /\ log = <<>>
        /\ we_event = <<>>
        /\ event_write_index = 0
        /\ event_buffer = [i \in Indices |-> 0]

\* After a failed startup the capture thread has asked for no event and
\* stored nothing, and is in or on its way out of its loop.
C12_Failed ==
    midi_init_state = -1 =>
        /\ initialized = 1
        /\ main_pc = "exit"
        /\ midi_pc \in {"wait", "loop", "exit"}
        /\ log = <<>>
        /\ we_event = <<>>
        /\ event_write_index = 0

\* midi_init_state changes from 0 only: to 1 with everything started, to -1
\* never after 1; at -1 the test of the capture loop leads out of it.
C12_Step ==
    /\ midi_init_state' # midi_init_state => midi_init_state = 0
    /\ (midi_init_state' = 1 /\ midi_init_state # 1) =>
          /\ data_handle = "open"
          /\ midi_pcm = "open"
          /\ midi_seq = "open"
          /\ prefill_i = num_subbuffers
          /\ (is_paused /\ pcm_paused) \/ (~is_paused /\ last_written_time # Unset)
          /\ midi_event_written = 0
          /\ midi_pc = "wait"
    /\ (midi_init_state = -1 /\ midi_pc = "loop" /\ midi_pc' # midi_pc) => midi_pc' = "exit"

\* C12: main gets past start_thread only when the capture thread has set
\* initialized; the capture thread asks for no event and enqueues nothing
\* while midi_init_state is 0; midi_init_state becomes 1 only with the
\* synthesizer started, the output device and the sequencer port open, the
\* pre-fill and the first pause attempt done and midi_event_written cleared;
\* when midi_init_state goes from 0 to -1 the capture thread leaves without
\* having asked for an event or stored a byte.
C12_Rendezvous ==
    /\ [](C12_PastStartThread => (initialized = 1 /\ midi_pc \notin {"none", "init"}))
    /\ [](C12_NotStarted)
    /\ [](C12_Failed)
    /\ [][C12_Step]_vars

\* The capture thread asks for its first event: everything is started and
\* the main thread is in its loop.
C12_Witness ==
    /\ midi_init_state = 1
    /\ midi_pc = "input"
    /\ log = <<>>
    /\ main_pc = "tick"
    /\ midi_seq = "open"

(***************************************************************************)
(* C14: a tick that finds the flag set                                     *)
(***************************************************************************)

\* The main thread takes a step from position pc.
C14_From(pc) == main_pc = pc /\ main_pc' # pc

\* The steps of such a tick, one after the other.
C14_Step ==
    /\ (C14_From("tick") /\ midi_event_written # 0) =>
          /\ main_pc' = "activity"
          /\ UNCHANGED <<is_paused, pcm_paused, last_written_time>>
    /\ C14_From("activity") =>
          /\ midi_event_written' = 0
          /\ last_written_time' = now
          /\ main_pc' = IF is_paused THEN "unpause" ELSE "state"
          /\ UNCHANGED <<is_paused, pcm_paused>>
    /\ C14_From("unpause") =>
          /\ is_paused /\ ~is_paused'
          /\ ~pcm_paused'
          /\ main_pc' = "state"
    /\ C14_From("state") => main_pc' \in {"prepare", "avail"}
    /\ C14_From("prepare") => main_pc' = "avail"
    /\ C14_From("avail") => main_pc' = "while"
    /\ (C14_From("while") /\ available_frames >= 3 * samples_per_call) =>
          main_pc' = "rs_read"

\* C14: a tick that finds midi_event_written set clears it and sets
\* last_written_time to the time of the clock; when paused it then unpauses
\* the device and is active; in both cases the same tick goes on to the
\* state of the device, the free frames and, with room enough, the
\* render/output loop.
C14_Activity == [][C14_Step]_vars

\* The flag was found set while paused: it is cleared, the time (after the
\* start of the clock) recorded, the device about to be unpaused.
C14_Witness ==
    /\ main_pc = "unpause"
    /\ is_paused /\ pcm_paused
    /\ midi_event_written = 0
    /\ now > 0
    /\ last_written_time = now
    /\ Len(log) = 1 /\ log[1].result = "written"

(***************************************************************************)
(* C15: the idle pause                                                     *)
(***************************************************************************)

\* A round of the loop calls snd_pcm_pause(midi_pcm, 1): the device accepts
\* (is_paused is set) or refuses (last_written_time is set anew).
C15_Attempt ==
    /\ main_pc = "tick"
    /\ is_paused' # is_paused \/ last_written_time' # last_written_time

C15_Step ==
    /\ C15_Attempt =>
          /\ ~is_paused
          /\ midi_event_written = 0
          /\ last_written_time # Unset
          /\ now - last_written_time > IdleThreshold
          /\ is_paused' => (pcm_paused' /\ main_pc' = "tick"
                             /\ last_written_time' = last_written_time)
    /\ (is_paused /\ main_pc = "tick" /\ main_pc' # "tick") =>
          (midi_event_written # 0 /\ main_pc' = "activity")
    /\ (is_paused /\ ~is_paused') => main_pc = "unpause"

\* C15: a round of the loop tries to pause the device only when it is not
\* paused, has found midi_event_written clear and more than the idle
\* threshold has gone by since last_written_time; when the device accepts,
\* the loop is paused and the round ends; a paused loop does nothing but
\* sleep, and so calls snd_pcm_pause no more, until it finds the flag set
\* and has unpaused the device.
C15_IdlePause ==
    /\ [](is_paused = pcm_paused)
    /\ [](is_paused => main_pc \in {"clear_flag", "set_running", "tick", "activity", "unpause"})
    /\ [][C15_Step]_vars

\* Paused by the loop after an event was handled and the idle threshold
\* went by, and asleep since.
C15_Witness ==
    /\ main_pc = "tick"
    /\ is_paused /\ pcm_paused
    /\ midi_event_written = 0
    /\ last_written_time > 0
    /\ now - last_written_time > IdleThreshold
    /\ Len(log) >= 1 /\ log[1].result = "written"
    /\ eas_stream # <<>>

(***************************************************************************)
(* C16: the device refuses to pause                                        *)
(***************************************************************************)

\* The idle threshold has gone by since last_written_time.
C16_Idle == last_written_time # Unset /\ now - last_written_time > IdleThreshold

C16_Step ==
    /\ (C14_From("first_pause") /\ ~is_paused') =>
          /\ last_written_time' = now
          /\ ~pcm_paused'
    /\ (C14_From("tick") /\ midi_event_written = 0 /\ C16_Idle /\ ~is_paused') =>
          /\ main_pc' = "refused"
          /\ last_written_time' = now
          /\ ~pcm_paused'
    /\ (main_pc = "tick" /\ main_pc' \in {"state", "refused"}) =>
          /\ ~is_paused'
          /\ last_written_time' # Unset
          /\ now - last_written_time' <= IdleThreshold
    /\ last_written_time' # last_written_time => last_written_time' = now
    /\ C14_From("refused") => main_pc' \in {"prepare", "avail"}
    /\ C14_From("prepare") => main_pc' = "avail"
    /\ (C14_From("avail") /\ available_frames' >= 3 * samples_per_call) =>
          main_pc' = "while"
    /\ (C14_From("while") /\ available_frames >= 3 * samples_per_call) =>
          main_pc' = "rs_read"

\* C16: when the device refuses to pause, before the loop or in a round of
\* it, the loop stays active and last_written_time is set to the time of the
\* clock; the round goes on to the state of the device and to the
\* render/output loop; and as every round that goes on has
\* last_written_time within the idle threshold, the next attempt comes only
\* when more than the threshold has gone by again.
C16_PauseRefused == [][C16_Step]_vars

\* No event was ever handled; the device has refused to pause in a round of
\* the loop, a second time at the least, and the round is about to look at
\* the state of the device.
C16_Witness ==
    /\ main_pc = "refused"
    /\ log = <<>>
    /\ ~is_paused /\ ~pcm_paused
    /\ now >= 2 * (IdleThreshold + 1)
    /\ last_written_time = now

(***************************************************************************)
(* C17: no error of the running program stops the loop                     *)
(***************************************************************************)

\* The positions of the main thread inside while (1) of main_loop.
C17_Rounds ==
    {"tick", "activity", "unpause", "state", "refused", "prepare", "avail",
     "while", "rs_read", "rs_write", "rs_span1", "rs_span2", "rs_update",
     "rs_render", "output", "advance"}

\* The positions of the capture thread before and inside its loop.
C17_Capturing ==
    {"wait", "loop", "input", "we_read", "we_check", "we_copy", "we_publish",
     "we_notify"}

C17_Running ==
    midi_init_state = 1 =>
        /\ main_pc \in C17_Rounds
        /\ midi_pc \in C17_Capturing
        /\ ENABLED main(FewAnswers)

C17_Step ==
    /\ midi_init_state = 1 => midi_init_state' = 1
    /\ overflow_count' # overflow_count =>
          (midi_pc' = "loop" /\ main_pc' = main_pc)
    /\ (C14_From("rs_render") /\ rs_result' < 0) => main_pc' = "output"
    /\ (C14_From("output") /\ os_result' < 0) => main_pc' = "advance"
    /\ (main_pc = "advance" /\ os_result < 0 /\ main_pc' # main_pc) =>
          main_pc' = "tick"
    /\ (main_pc \in {"state", "refused"} /\ main_pc' # main_pc) =>
          main_pc' \in {"prepare", "avail"}
    /\ C14_From("prepare") => main_pc' = "avail"
    /\ (main_pc = "tick" /\ main_pc' # main_pc) =>
          main_pc' \in {"activity", "state", "refused"}

\* C17: once midi_init_state is 1 it stays 1, the main thread stays inside
\* the loop of main_loop with a step to take, and the capture thread stays in
\* its loop: a dropped chunk leads the capture thread back to the head of
\* its loop, a failed render leads on to the write, a failed write to the
\* next round, an underrun to snd_pcm_prepare and on, a refused pause on to
\* the state of the device.
C17_NoErrorStops == []C17_Running /\ [][C17_Step]_vars

\* A chunk was dropped, and in one iteration EAS_Render gave a short period
\* and the device refused the write; the program runs on.
C17_Witness ==
    /\ midi_init_state = 1
    /\ main_pc = "advance"
    /\ rs_result = -2
    /\ os_result = -1
    /\ overflow_count > 0
    /\ midi_pc = "input"

(***************************************************************************)
(* C18: how far ahead a round renders                                      *)
(***************************************************************************)

\* The main thread is inside an iteration of the inner while.
C18_Iteration ==
    main_pc \in {"rs_read", "rs_write", "rs_span1", "rs_span2", "rs_update",
                 "rs_render", "output", "advance"}

\* C18: in a round a period is drained, rendered and written only while
\* the free frames the device has answered are more than three periods.
C18_ExceedsThree == C18_Iteration => available_frames > 3 * samples_per_call

(***************************************************************************)
(* C19: the device refuses a period                                        *)
(***************************************************************************)

\* The slot after this one in the pool.
C19_NextSlot == IF subbuf_counter + 1 = num_subbuffers THEN 0 ELSE subbuf_counter + 1

\* Inside an iteration the slot rendered and written is subbuf_counter, and
\* from EAS_Render on the channel is drained up to the snapshot.
C19_Slot ==
    /\ C18_Iteration => num = subbuf_counter
    /\ main_pc \in {"rs_render", "output", "advance"} =>
          event_read_index = rs_write_index

C19_Step ==
    /\ (C14_From("output") /\ os_result' < 0) => main_pc' = "advance"
    /\ (C14_From("advance") /\ os_result < 0) =>
          /\ available_frames' = 0
          /\ main_pc' = "tick"
          /\ subbuf_counter' = subbuf_counter
          /\ event_read_index' = event_read_index
          /\ eas_stream' = eas_stream
    /\ subbuf_counter' # subbuf_counter =>
          /\ main_pc = "advance"
          /\ os_result >= 0
          /\ subbuf_counter' = C19_NextSlot
    /\ event_read_index' # event_read_index =>
          /\ main_pc = "rs_update"
          /\ event_read_index' = rs_write_index
    /\ eas_stream' # eas_stream =>
          /\ main_pc \in {"rs_span1", "rs_span2"}
          /\ Len(eas_stream') > Len(eas_stream)
          /\ SubSeq(eas_stream', 1, Len(eas_stream)) = eas_stream

\* C19: when output_subbuffer fails, available_frames is set to 0 and the
\* round ends with subbuf_counter as it was; subbuf_counter moves only after
\* a good write and every iteration renders and writes slot subbuf_counter,
\* so the next iteration takes the same slot; event_read_index stays where
\* the failed iteration put it and the bytes handed to the synthesizer stay
\* handed over, so the next iteration starts after them.
C19_WriteFailure == []C19_Slot /\ [][C19_Step]_vars

\* The write of slot 0 has failed in an iteration, after bytes of the
\* channel were handed to the synthesizer and before any slot went out.
C19_Witness ==
    /\ main_pc = "advance"
    /\ os_result < 0
    /\ num = 0 /\ subbuf_counter = 0
    /\ eas_stream # <<>>
    /\ event_read_index # 0
    /\ available_frames >= 3 * samples_per_call

(***************************************************************************)
(* C20: a failed render does not hold the output back                      *)
(***************************************************************************)

\* render_subbuffer returns a negative number exactly when EAS_Render fails
\* or gives another number of frames than samples_per_call.
C20_Negative ==
    \A res \in EAS_Results, num_generated \in Generated :
        (render_result(res, num_generated) < 0)
            <=> (res # "EAS_SUCCESS" \/ num_generated # samples_per_call)

C20_Reported ==
    /\ C20_Negative
    /\ rs_result \in {0, -1, -2}
    /\ (main_pc \in {"output", "advance"} /\ rs_result < 0) =>
          /\ num = subbuf_counter
          /\ event_read_index = rs_write_index

C20_Step ==
    /\ C14_From("rs_render") =>
          /\ main_pc' = "output"
          /\ event_read_index' = event_read_index
          /\ \E res \in EAS_Results, num_generated \in Generated :
                rs_result' = render_result(res, num_generated)
    /\ (C14_From("output") /\ rs_result < 0) =>
          /\ main_pc' = "advance"
          /\ num' = subbuf_counter
          /\ os_result' \in {0, -1}
    /\ (C14_From("advance") /\ rs_result < 0 /\ os_result >= 0) =>
          /\ subbuf_counter' = C19_NextSlot
          /\ available_frames' = available_frames - samples_per_call
          /\ main_pc' = "while"

\* C20: render_subbuffer returns a negative number when EAS_Render fails or
\* gives a number of frames other than samples_per_call; the channel was
\* drained before EAS_Render was called; main_loop goes on to
\* output_subbuffer with the same slot, and after a good write moves
\* subbuf_counter on as after a good render.
C20_RenderFailure == []C20_Reported /\ [][C20_Step]_vars

\* EAS_Render gave a short period after bytes of the channel were handed
\* over, and the device has taken the slot all the same.
C20_Witness ==
    /\ main_pc = "advance"
    /\ rs_result = -2
    /\ os_result = 0
    /\ num = subbuf_counter
    /\ eas_stream # <<>>
    /\ event_read_index = event_write_index
    /\ event_read_index # 0

(***************************************************************************)
(* C21: a round of the paused loop                                         *)
(***************************************************************************)

\* The positions at which the main thread asks the device for its state or
\* its free frames, prepares it, drains the channel, renders or writes.
C21_Working ==
    {"state", "refused", "prepare", "avail", "while", "rs_read", "rs_write",
     "rs_span1", "rs_span2", "rs_update", "rs_render", "output", "advance"}

\* The loop is at the head of a round, paused, with midi_event_written clear.
C21_PausedTick == main_pc = "tick" /\ is_paused /\ midi_event_written = 0

C21_Step ==
    C21_PausedTick =>
        /\ main_pc' = "tick"
        /\ UNCHANGED <<is_paused, pcm_paused, event_read_index, subbuf_counter,
                       available_frames, rs_read_index, rs_write_index, num,
                       rs_result, os_result, last_written_time, eas_stream>>

\* C21: a round that finds the loop paused and midi_event_written clear ends
\* at once: the main thread does not come to snd_pcm_state, snd_pcm_prepare,
\* snd_pcm_avail_update, render_subbuffer or output_subbuffer, and
\* event_read_index, subbuf_counter, is_paused and the device stay as they
\* are; a paused loop is never at one of those calls.
C21_PausedNoop == [](is_paused => main_pc \notin C21_Working) /\ [][C21_Step]_vars

\* Paused again after periods went out, the flag clear, and the clock has
\* gone on while the loop slept.
C21_Witness ==
    /\ C21_PausedTick
    /\ pcm_paused
    /\ subbuf_counter > 0
    /\ last_written_time # Unset
    /\ now - last_written_time > IdleThreshold + 1

(***************************************************************************)
(* C22: an underrun is met before the free frames are asked for            *)
(***************************************************************************)

C22_Underrun == "SND_PCM_STATE_XRUN"

C22_Step ==
    /\ (main_pc \in {"state", "refused"} /\ main_pc' # main_pc) =>
          /\ pcmstate' \in PcmStates
          /\ (pcmstate' = C22_Underrun) <=> (main_pc' = "prepare")
          /\ (pcmstate' # C22_Underrun) <=> (main_pc' = "avail")
          /\ UNCHANGED <<available_frames, eas_renders, eas_stream, event_read_index>>
    /\ C14_From("prepare") =>
          /\ pcmstate = C22_Underrun
          /\ main_pc' = "avail"
          /\ UNCHANGED <<available_frames, eas_renders, eas_stream, event_read_index>>
    /\ (main_pc' = "prepare" /\ main_pc # "prepare") =>
          main_pc \in {"state", "refused"}
    /\ (main_pc' = "avail" /\ main_pc # "avail") =>
          \/ main_pc = "prepare"
          \/ main_pc \in {"state", "refused"} /\ pcmstate' # C22_Underrun
    /\ C14_From("avail") => main_pc' = "while"
    /\ (main_pc' = "while" /\ main_pc \notin {"while", "advance"}) =>
          main_pc = "avail"
    /\ (main_pc' = "rs_read" /\ main_pc # "rs_read") => main_pc = "while"

\* C22: a round that is not skipped asks snd_pcm_state before
\* snd_pcm_avail_update; when the answer is an underrun, snd_pcm_prepare
\* comes next, before the free frames are asked for and before anything is
\* rendered or written in that round; with or without it the round goes on
\* to snd_pcm_avail_update and the inner loop.
C22_UnderrunFirst == [](main_pc = "prepare" => pcmstate = C22_Underrun) /\ [][C22_Step]_vars

\* After an underrun and snd_pcm_prepare, in a round that follows rounds
\* with rendered periods: the free frames are about to be asked for.
C22_Witness ==
    /\ main_pc = "avail"
    /\ pcmstate = C22_Underrun
    /\ eas_renders > 0
    /\ subbuf_counter > 0

(***************************************************************************)
(* C23: the pre-fill and the first pause                                   *)
(***************************************************************************)

\* C23: when the pre-fill is over, every slot but the first two has been
\* rendered: EAS_Render was called num_subbuffers - 2 times.
C23_PrefillRenders == main_pc = "first_pause" => eas_renders = num_subbuffers - 2

\* From the pre-fill to the assignment of midi_init_state nothing was
\* rendered or drained, subbuf_counter is 0 and the capture thread waits.
C23_BeforeLoop ==
    /\ main_pc \in {"prefill", "first_pause", "clear_flag", "set_running"} =>
          /\ eas_renders = 0
          /\ eas_stream = <<>>
          /\ subbuf_counter = 0
          /\ midi_init_state = 0
          /\ midi_pc = "wait"
          /\ log = <<>>
    /\ main_pc \in {"first_pause", "clear_flag", "set_running"} =>
          prefill_i = num_subbuffers
    /\ main_pc \in {"clear_flag", "set_running"} => is_paused = pcm_paused

C23_Step ==
    /\ C14_From("main_loop") => (prefill_i' = 2 /\ main_pc' = "prefill")
    /\ prefill_i' # prefill_i =>
          /\ main_pc \in {"main_loop", "prefill"}
          /\ main_pc = "prefill" =>
                (prefill_i < num_subbuffers /\ prefill_i' = prefill_i + 1)
    /\ C14_From("prefill") =>
          (prefill_i = num_subbuffers /\ main_pc' = "first_pause")
    /\ C14_From("first_pause") =>
          /\ main_pc' = "clear_flag"
          /\ is_paused' = pcm_paused'
          /\ ~is_paused' => last_written_time' = now
    /\ (main_pc \notin C17_Rounds /\ main_pc # "first_pause") =>
          UNCHANGED <<is_paused, pcm_paused>>
    /\ C14_From("set_running") => (main_pc' = "tick" /\ midi_init_state' = 1)

\* C23: before the first round and before midi_init_state is 1 the loop
\* writes the slots 2 .. num_subbuffers - 1 to the device, each once and in
\* that order, without a call of EAS_Render; subbuf_counter stays 0; then
\* snd_pcm_pause is called once, and the loop begins paused exactly when the
\* device has accepted.
C23_Prefill == []C23_BeforeLoop /\ [][C23_Step]_vars

\* The first round is about to begin, paused, after the pre-fill and with
\* nothing rendered.
C23_Witness ==
    /\ main_pc = "tick"
    /\ midi_init_state = 1
    /\ is_paused /\ pcm_paused
    /\ prefill_i = num_subbuffers
    /\ eas_renders = 0
    /\ subbuf_counter = 0
    /\ last_written_time = Unset

(***************************************************************************)
(* C24: the order of the slots                                             *)
(***************************************************************************)

\* The slot after slot k, round the pool.
C24_After(k) == (k + 1) % num_subbuffers

C24_Range ==
    /\ subbuf_counter \in 0 .. (num_subbuffers - 1)
    /\ C18_Iteration => num = subbuf_counter

C24_Step ==
    /\ (C14_From("while") /\ main_pc' = "rs_read") => num' = subbuf_counter
    /\ (C18_Iteration /\ main_pc # "advance") =>
          (num' = num /\ subbuf_counter' = subbuf_counter)
    /\ C14_From("output") => main_pc' = "advance"
    /\ (C14_From("advance") /\ os_result >= 0) =>
          subbuf_counter' = C24_After(subbuf_counter)
    /\ subbuf_counter' # subbuf_counter =>
          /\ main_pc = "advance"
          /\ os_result >= 0
          /\ subbuf_counter' = C24_After(subbuf_counter)

\* C24: subbuf_counter is one of the slots 0 .. num_subbuffers - 1; in an
\* iteration of the inner loop the slot rendered and the slot written are
\* both subbuf_counter, which does not change in between; subbuf_counter
\* goes to the next slot round the pool after a write that succeeded, and
\* changes at no other step.
C24_SlotOrder == []C24_Range /\ [][C24_Step]_vars

\* The last slot of the pool has been rendered and written; the counter is
\* about to go back to slot 0.
C24_Witness ==
    /\ main_pc = "advance"
    /\ os_result = 0
    /\ num = num_subbuffers - 1
    /\ subbuf_counter = num_subbuffers - 1

(***************************************************************************)
(* C25: the pool fits midi_buffer                                          *)
(***************************************************************************)

\* start_synth has computed the pool and gone on to EAS_Init.
C25_Accepted == pool # <<>> /\ main_pc = "EAS_Init"

\* start_synth has computed the pool and returned -1.
C25_Rejected == pool # <<>> /\ main_pc = "exit"

\* C25: for every configuration start_synth accepts, num_subbuffers *
\* bytes_per_call is at most 65536, so every slot k of 0 .. num_subbuffers - 1
\* lies inside midi_buffer; a configuration is rejected exactly when the
\* capped pool has fewer than 4 slots.
C25_PoolFits ==
    /\ C25_Accepted =>
          /\ pool.num_subbuffers * pool.bytes_per_call <= midi_buffer_size
          /\ \A k \in 0 .. (pool.num_subbuffers - 1) :
                /\ k * pool.bytes_per_call >= 0
                /\ (k + 1) * pool.bytes_per_call <= midi_buffer_size
          /\ pool.num_subbuffers >= 4
    /\ C25_Rejected => pool.num_subbuffers < 4
    /\ pool # <<>> => (C25_Accepted \/ C25_Rejected)

\* A configuration is accepted whose pool was capped and fills midi_buffer
\* to the last byte.
C25_Witness ==
    /\ C25_Accepted
    /\ wanted_subbuffers(eas_config) > pool.num_subbuffers
    /\ pool.num_subbuffers * pool.bytes_per_call = midi_buffer_size

(***************************************************************************)
(* C26: the range of the pool size                                         *)
(***************************************************************************)

\* C26: for every configuration start_synth accepts, num_subbuffers lies
\* between 4 and 16.
C26_FourToSixteen ==
    C25_Accepted => (pool.num_subbuffers >= 4 /\ pool.num_subbuffers <= 16)

\* The smaller of two numbers.
C26_Min(a, b) == IF a < b THEN a ELSE b

\* C26: for every configuration start_synth accepts, num_subbuffers is
\* floor(4096 * rate / (11025 * period)) capped by floor(65536 /
\* bytes_per_call), and lies between 4 and that cap; the configurations
\* for which this number is below 4 are the rejected ones.
C26_PoolSize ==
    pool # <<>> =>
        /\ pool.bytes_per_call =
              eas_config.mixBufferSize * eas_config.numChannels * sizeof_EAS_PCM
        /\ pool.num_subbuffers =
              C26_Min((4096 * eas_config.sampleRate)
                          \div (11025 * eas_config.mixBufferSize),
                      midi_buffer_size \div pool.bytes_per_call)
        /\ C25_Accepted <=> pool.num_subbuffers >= 4
        /\ C25_Rejected <=> pool.num_subbuffers < 4
        /\ C25_Accepted =>
              pool.num_subbuffers <= midi_buffer_size \div pool.bytes_per_call

\* Two channels at 22050 Hz with a mix buffer of 128 frames are accepted
\* with a pool of 64 slots.
C26_Witness ==
    /\ C25_Accepted
    /\ eas_config = [numChannels |-> 2, sampleRate |-> 22050, mixBufferSize |-> 128]
    /\ pool.num_subbuffers = 64

(***************************************************************************)
(* C27: a notification that is lost costs at most one tick                 *)
(***************************************************************************)

\* The consumer clears a flag that is set.
C27_Clear == midi_event_written # 0 /\ midi_event_written' = 0

\* The steps of the producer and of the consumer on the flag, in every
\* order the two threads can take them.
C27_Step ==
    \* the producer publishes first and leaves the flag alone in that step
    /\ event_write_index' # event_write_index =>
          (midi_pc = "we_publish" /\ midi_pc' = "we_notify"
             /\ midi_event_written' = midi_event_written)
    \* and sets the flag in the step that completes the enqueue
    /\ (midi_pc = "we_notify" /\ midi_pc' # "we_notify") =>
          (midi_event_written' = 1 /\ midi_pc' = "loop")
    /\ (midi_event_written = 0 /\ midi_event_written' # 0) => midi_pc = "we_notify"
    \* the tick that finds the flag set handles activity
    /\ (C14_From("tick") /\ midi_event_written # 0) => main_pc' = "activity"
    /\ (main_pc = "tick" /\ midi_event_written # 0) => is_paused' = is_paused
    \* a set flag is cleared in such a tick only, which notes the time and
    \* goes on to unpause a paused device
    /\ C27_Clear =>
          /\ main_pc = "activity"
          /\ last_written_time' = now
          /\ main_pc' = IF is_paused THEN "unpause" ELSE "state"
    /\ C14_From("activity") => midi_event_written' = 0
    /\ C14_From("unpause") => (~is_paused' /\ ~pcm_paused' /\ main_pc' = "state")
    \* the loop pauses only at the head of a tick or before the loop, with
    \* the flag clear
    /\ (~is_paused /\ is_paused') =>
          (main_pc \in {"tick", "first_pause"} /\ midi_event_written = 0)

\* C27: write_event sets midi_event_written after it has published
\* event_write_index; main_loop tests the flag and clears it in two steps.
\* In every order of these steps a set flag is cleared only by a tick that
\* is handling activity, which notes the time and unpauses the device, and
\* a flag that is still set at the next tick makes that tick handle
\* activity: once an enqueue has completed, the loop is not paused at the
\* end of the next full tick.
C27_LostWakeup ==
    /\ [](main_pc \in {"activity", "unpause"} => main_pc \notin C21_Working)
    /\ [](main_pc = "unpause" => is_paused)
    /\ [][C27_Step]_vars

\* Two enqueues have completed and nothing has been drained, the flag has
\* been cleared once, and the tick that cleared it is about to unpause the
\* device.
C27_Witness ==
    /\ main_pc = "unpause"
    /\ is_paused
    /\ midi_event_written = 0
    /\ midi_pc \in {"loop", "input"}
    /\ Len(log) = 2
    /\ \A i \in 1..2 : log[i].result = "written"
    /\ eas_stream = <<>>
    /\ event_read_index = 0

(***************************************************************************)
(* C30: bytes in the channel while the loop is paused                      *)
(***************************************************************************)

\* The render loop is paused, between two ticks, and the flag is clear.
C30_PausedClear == main_pc = "tick" /\ is_paused /\ midi_event_written = 0

\* write_event has published a chunk and is about to set the flag.
C30_Notifying == midi_pc = "we_notify"

\* C30: in every state in which the render loop is paused and the flag is
\* clear, the channel is empty (event_read_index = event_write_index),
\* unless a notification is pending; the notification write_event is about
\* to give counts as pending.
C30_NoStrandedBytes ==
    (C30_PausedClear /\ ~C30_Notifying) => event_read_index = event_write_index

(***************************************************************************)
(* C29: every byte accepted is forwarded in the end                        *)
(***************************************************************************)

\* C29: every byte write_event has accepted is eventually forwarded to the
\* synthesizer, if the render loop keeps ticking and the device, asked
\* while not paused, eventually reports three periods of free frames. The
\* events of a run are finitely many, so this is: whenever bytes have been
\* published that the synthesizer has not received, a state follows in
\* which it has received all that was published.
C29_EventualDelivery ==
    (Len(eas_stream) < Len(PublishedBytes)) ~> (eas_stream = PublishedBytes)

(***************************************************************************)
(* C28: the stream in the channel across dropped chunks                    *)
(***************************************************************************)

\* Chunk i reached the channel.
C28_Written(i) == log[i].result = "written"

\* The status a decoder of the channel's bytes is in after the chunks up to
\* i that reached the channel: 0 after system-exclusive data or at the
\* start, else the last status byte that reached the channel.
RECURSIVE C28_StreamStatus(_)
C28_StreamStatus(i) ==
    IF i = 0 THEN 0
    ELSE IF ~C28_Written(i) THEN C28_StreamStatus(i - 1)
    ELSE IF log[i].event.type = "SYSEX" THEN 0
    ELSE IF HasStatus(i) THEN log[i].data[1]
    ELSE C28_StreamStatus(i - 1)

\* C28: whatever chunks write_event drops, every chunk that reaches the
\* channel without a status byte follows, in the bytes of the channel, a
\* status byte equal to its own status, with no other status byte and no
\* system-exclusive data in between.
C28_Decodable ==
    \A i \in 1 .. Len(log) :
        (C28_Written(i) /\ IsChannelMessage(i) /\ HasNoStatus(i)) =>
            C28_StreamStatus(i - 1) = ExpectedStatus(log[i].event)

(***************************************************************************)
(* C31: a period the device takes in parts                                 *)
(***************************************************************************)

\* The byte offsets of the frames of slot num, in order.
C31_SlotFrames ==
    [f \in 1 .. eas_config.mixBufferSize |->
        num * pool.bytes_per_call + (f - 1) * frame_bytes(eas_config)]

\* C31: with one channel and with two, each call of snd_pcm_writei asks for
\* the frames that remain, from the byte offset of the first frame not yet
\* written; the frames the device has accepted are the first frames of the
\* slot, each once and in order, and all of them when output_subbuffer
\* returns 0.
C31_PartialWrites ==
    /\ main_pc = "os_while" =>
          /\ remaining = eas_config.mixBufferSize - Len(handed)
          /\ handed = SubSeq(C31_SlotFrames, 1, Len(handed))
          /\ buf_ptr = num * pool.bytes_per_call
                         + Len(handed) * frame_bytes(eas_config)
    /\ (main_pc = "os_return" /\ os_result = 0) => handed = C31_SlotFrames

\* The same for two channels only.
C31_Stereo == eas_config.numChannels = 2 => C31_PartialWrites

\* Two channels: a period of 2 * samples_per_call frames went out in more
\* than one call.
C31_StereoWitness ==
    /\ main_pc = "os_return"
    /\ os_result = 0
    /\ eas_config.numChannels = 2
    /\ Len(handed) = 2 * samples_per_call
    /\ num = 1

(***************************************************************************)
(* C32: last_written_time is assigned before it is compared                *)
(***************************************************************************)

\* The next step of main_loop is the comparison of line 1558: the flag is
\* clear and the loop is not paused.
C32_Compares == main_pc = "tick" /\ midi_event_written = 0 /\ ~is_paused

\* main_loop is past the initial pause.
C32_PastPause ==
    main_pc \notin {"start_synth", "start_thread", "wait_thread",
                    "open_pcm_output", "open_midi_port", "main_loop",
                    "prefill", "first_pause", "exit"}

C32_Step ==
    \* the initial pause leaves the time unassigned if it succeeds and
    \* assigns it if it fails
    /\ C14_From("first_pause") =>
          /\ is_paused' => last_written_time' = Unset
          /\ ~is_paused' => last_written_time' = now
    \* the first assignment is that one or the one of a tick that found the
    \* flag set
    /\ (last_written_time = Unset /\ last_written_time' # Unset) =>
          main_pc \in {"first_pause", "activity"}
    /\ C14_From("activity") => last_written_time' = now
    /\ last_written_time # Unset => last_written_time' # Unset
    \* the paused branch changes nothing
    /\ (main_pc = "tick" /\ is_paused /\ midi_event_written = 0) =>
          (main_pc' = "tick" /\ is_paused' /\ last_written_time' = last_written_time)

\* C32: the comparison with last_written_time is made only after
\* last_written_time has been assigned, by the initial pause that failed or
\* by a tick that found the flag set; after an initial pause that succeeded
\* it is unassigned and the loop is paused, and stays in the paused branch,
\* until the first tick that finds the flag set.
C32_AssignedBeforeUse ==
    /\ [](C32_Compares => last_written_time # Unset)
    /\ []((C32_PastPause /\ last_written_time = Unset) => is_paused)
    /\ [][C32_Step]_vars

\* The initial pause succeeded, no event has arrived, and the clock has
\* passed the idle threshold: the loop is paused with the time unassigned.
C32_Witness ==
    /\ main_pc = "tick"
    /\ midi_init_state = 1
    /\ is_paused
    /\ midi_event_written = 0
    /\ last_written_time = Unset
    /\ now > IdleThreshold

====
